---- MODULE Spec2Model ----
(***************************************************************************)
(* Model of cite_md.py: the bibliography parser, the citation scanner, the *)
(* numbered reference formatter and main(), which composes them.           *)
(*                                                                         *)
(* A text (a Python str) is a sequence of one-character strings, so that   *)
(* the regular expressions, split/strip/join and the f-strings of the      *)
(* source are computed character by character.                             *)
(***************************************************************************)
EXTENDS Integers, Sequences, FiniteSets, TLC

VARIABLES
    pc,              \* position of main() (and of parse_bib_file inside it)
    bib_file,        \* args.bib_file
    style,           \* the style name given at invocation
    content,         \* parse_bib_file: local `content`
    entries,         \* parse_bib_file: local `entries`
    bib_data,        \* main: bib_data, [is_none, entries]
    markdown_text,   \* main: markdown_text
    cited_keys_list, \* main: cited_keys_list (the OrderedDict's keys)
    citation_map,    \* main: citation_map
    modified_text,   \* main: modified_text
    references,      \* main: references
    stdio_encoding,  \* sys.stdin.encoding and sys.stdout.encoding (the locale's, or
                     \* PYTHONIOENCODING): fixed when the interpreter starts
    stdout,          \* everything written to sys.stdout
    stderr,          \* the lines written to sys.stderr
    exit_code,       \* <<>> while running, <<status>> once the process ended
    trace            \* history: the events of the run, in order

vars == <<pc, bib_file, style, content, entries, bib_data, markdown_text,
          cited_keys_list, citation_map, modified_text, references,
          stdio_encoding, stdout, stderr, exit_code, trace>>

----------------------------------------------------------------------------
(* Python str primitives *)

Range(s) == {s[i] : i \in 1..Len(s)}

\* A character that a TLA+ string cannot hold (a control character other than \t \n
\* \r \f, the grave accent, or a character outside ASCII) is the token "U+XXXX" of
\* its code point.

\* the characters str.isspace() holds of: str.strip(), str.split() and \s of a str
\* pattern all take exactly these
WhitespaceChars ==
    {" ", "\t", "\n", "\r", "\f", "U+000B", "U+001C", "U+001D", "U+001E", "U+001F",
     "U+0085", "U+00A0", "U+1680", "U+2000", "U+2001", "U+2002", "U+2003", "U+2004",
     "U+2005", "U+2006", "U+2007", "U+2008", "U+2009", "U+200A", "U+2028", "U+2029",
     "U+202F", "U+205F", "U+3000"}

LowerLetters == <<"a","b","c","d","e","f","g","h","i","j","k","l","m",
                  "n","o","p","q","r","s","t","u","v","w","x","y","z">>

UpperLetters == <<"A","B","C","D","E","F","G","H","I","J","K","L","M",
                  "N","O","P","Q","R","S","T","U","V","W","X","Y","Z">>

DigitChars == <<"0","1","2","3","4","5","6","7","8","9">>

\* the letters outside ASCII that the model's texts may hold, upper case and, at the
\* same index, lower case: U+00C2/U+00E2 (A circumflex), U+00C9/U+00E9 (E acute),
\* U+00CD/U+00ED (I acute), U+00D1/U+00F1 (N tilde)
UnicodeUpper == <<"U+00C2", "U+00C9", "U+00CD", "U+00D1">>

UnicodeLower == <<"U+00E2", "U+00E9", "U+00ED", "U+00F1">>

\* the other characters outside ASCII that \w matches: U+0130 (capital I with dot),
\* U+03A3 U+03C3 U+03C2 (capital, small and final sigma), U+00B2 (superscript two),
\* U+0661 (Arabic-Indic digit one), U+4E2D (a CJK ideograph)
UnicodeWordChars ==
    Range(UnicodeUpper) \cup Range(UnicodeLower)
    \cup {"U+0130", "U+03A3", "U+03C3", "U+03C2", "U+00B2", "U+0661", "U+4E2D"}

\* \w of a str pattern (no re.ASCII): the letters and digits of Unicode and "_"
WordChars ==
    Range(LowerLetters) \cup Range(UpperLetters) \cup Range(DigitChars) \cup {"_"}
    \cup UnicodeWordChars

\* \s and str.strip()'s notion of whitespace
IsSpace(c) == c \in WhitespaceChars

\* \w
IsWord(c) == c \in WordChars

\* str.lower() of a one-character str: U+0130 lowers to two characters, every other
\* cased character to one
lower_char(c) ==
    IF \E i \in 1..Len(UpperLetters) : UpperLetters[i] = c
    THEN <<LowerLetters[CHOOSE i \in 1..Len(UpperLetters) : UpperLetters[i] = c]>>
    ELSE IF \E i \in 1..Len(UnicodeUpper) : UnicodeUpper[i] = c
    THEN <<UnicodeLower[CHOOSE i \in 1..Len(UnicodeUpper) : UnicodeUpper[i] = c]>>
    ELSE IF c = "U+0130" THEN <<"i", "U+0307">>
    ELSE IF c = "U+03A3" THEN <<"U+03C3">>
    ELSE <<c>>

\* the characters with a case
CasedChars ==
    Range(LowerLetters) \cup Range(UpperLetters) \cup Range(UnicodeUpper)
    \cup Range(UnicodeLower) \cup {"U+0130", "U+03A3", "U+03C3", "U+03C2"}

\* the characters str.lower() looks through when it decides on a final sigma
\* (U+0060 is the grave accent, U+0307 the combining dot above)
CaseIgnorableChars == {"'", ".", ":", "^", "U+0060", "U+0307"}

\* str.lower(): the capital sigma at i is a final sigma when a cased character
\* precedes it and none follows it, case-ignorable characters apart
final_sigma(s, i) ==
    LET before == CHOOSE j \in 0..(i - 1) :
                      /\ j = 0 \/ s[j] \notin CaseIgnorableChars
                      /\ \A k \in (j + 1)..(i - 1) : s[k] \in CaseIgnorableChars
        after == CHOOSE j \in (i + 1)..(Len(s) + 1) :
                     /\ j = Len(s) + 1 \/ s[j] \notin CaseIgnorableChars
                     /\ \A k \in (i + 1)..(j - 1) : s[k] \in CaseIgnorableChars
    IN  /\ before # 0
        /\ s[before] \in CasedChars
        /\ after = Len(s) + 1 \/ s[after] \notin CasedChars

RECURSIVE lower_from(_, _)
lower_from(s, i) ==
    IF i > Len(s) THEN <<>>
    ELSE (IF s[i] = "U+03A3" /\ final_sigma(s, i) THEN <<"U+03C2">> ELSE lower_char(s[i]))
         \o lower_from(s, i + 1)

\* str.lower()
lower(s) == lower_from(s, 1)

\* the least i in from..to with P(i), 0 when there is none (a left-to-right scan)
First(from, to, P(_)) ==
    IF \E i \in from..to : P(i)
    THEN CHOOSE i \in from..to : P(i) /\ \A j \in from..(i - 1) : ~P(j)
    ELSE 0

\* the greatest i in from..to with P(i), 0 when there is none (a right-to-left scan)
Last(from, to, P(_)) ==
    IF \E i \in from..to : P(i)
    THEN CHOOSE i \in from..to : P(i) /\ \A j \in (i + 1)..to : ~P(j)
    ELSE 0

\* str.lstrip()
lstrip(s) ==
    LET k == First(1, Len(s), LAMBDA i : ~IsSpace(s[i]))
    IN  IF k = 0 THEN <<>> ELSE SubSeq(s, k, Len(s))

\* str.rstrip()
rstrip(s) == SubSeq(s, 1, Last(1, Len(s), LAMBDA i : ~IsSpace(s[i])))

\* str.strip()
strip(s) == rstrip(lstrip(s))

\* least index >= from at which character c stands, 0 when there is none
index_from(s, c, from) == First(from, Len(s), LAMBDA i : s[i] = c)

\* greatest index <= upto at which character c stands, 0 when there is none
rindex(s, c, upto) == Last(1, upto, LAMBDA i : s[i] = c)

starts_at(s, pos, pat) ==
    /\ pos + Len(pat) - 1 <= Len(s)
    /\ \A k \in 1..Len(pat) : s[pos + k - 1] = pat[k]

\* str.find(pat, from), 1-based, 0 when absent
find_from(s, pat, from) ==
    First(from, Len(s) - Len(pat) + 1, LAMBDA i : starts_at(s, i, pat))

\* str.split(sep) for a non-empty separator: always at least one piece
RECURSIVE split(_, _)
split(s, sep) ==
    LET i == find_from(s, sep, 1)
    IN  IF i = 0 THEN <<s>>
        ELSE <<SubSeq(s, 1, i - 1)>> \o split(SubSeq(s, i + Len(sep), Len(s)), sep)

\* end of the run of non-whitespace characters that starts at from
token_end(s, from) ==
    LET k == First(from, Len(s), LAMBDA i : IsSpace(s[i]))
    IN  IF k = 0 THEN Len(s) ELSE k - 1

\* str.split() without argument: the maximal runs of non-whitespace characters
RECURSIVE split_ws(_)
split_ws(s) ==
    LET t == lstrip(s)
    IN  IF t = <<>> THEN <<>>
        ELSE LET e == token_end(t, 1)
             IN  <<SubSeq(t, 1, e)>> \o split_ws(SubSeq(t, e + 1, Len(t)))

\* sep.join(parts)
RECURSIVE join(_, _)
join(parts, sep) ==
    IF parts = <<>> THEN <<>>
    ELSE IF Len(parts) = 1 THEN parts[1]
    ELSE parts[1] \o sep \o join(Tail(parts), sep)

\* str.replace(old, new)
RECURSIVE replace(_, _, _)
replace(s, old, new) ==
    LET i == find_from(s, old, 1)
    IN  IF i = 0 THEN s
        ELSE SubSeq(s, 1, i - 1) \o new \o replace(SubSeq(s, i + Len(old), Len(s)), old, new)

\* str(n) for n >= 0
RECURSIVE str(_)
str(n) ==
    IF n < 10 THEN <<DigitChars[n + 1]>>
    ELSE str(n \div 10) \o <<DigitChars[(n % 10) + 1]>>

\* the characters of the model's texts that lie outside ASCII
NonAsciiChars ==
    {"U+0085","U+00A0","U+00B2","U+00C2","U+00C9","U+00CD","U+00D1","U+00E2","U+00E9",
     "U+00ED","U+00F1","U+0130","U+0307","U+03A3","U+03C2","U+03C3","U+0661","U+1680",
     "U+2000","U+2001","U+2002","U+2003","U+2004","U+2005","U+2006","U+2007","U+2008",
     "U+2009","U+200A","U+2013","U+201C","U+2028","U+2029","U+202F","U+205F","U+20AC",
     "U+3000","U+4E2D"}

\* the characters of the model's texts that str.isprintable() does not hold of, \t \n
\* \r apart
NonPrintableChars ==
    {"\f","U+000B","U+001C","U+001D","U+001E","U+001F","U+0085","U+00A0","U+1680",
     "U+2000","U+2001","U+2002","U+2003","U+2004","U+2005","U+2006","U+2007","U+2008",
     "U+2009","U+200A","U+2028","U+2029","U+202F","U+205F","U+3000"}

\* the \xNN or \uNNNN escape of a character, as repr() and the message of a
\* UnicodeEncodeError write it
escape_of ==
    ("\f" :> <<"\\","x","0","c">>)
    @@ ("U+000B" :> <<"\\","x","0","b">>)
    @@ ("U+001C" :> <<"\\","x","1","c">>)
    @@ ("U+001D" :> <<"\\","x","1","d">>)
    @@ ("U+001E" :> <<"\\","x","1","e">>)
    @@ ("U+001F" :> <<"\\","x","1","f">>)
    @@ ("U+0085" :> <<"\\","x","8","5">>)
    @@ ("U+00A0" :> <<"\\","x","a","0">>)
    @@ ("U+00B2" :> <<"\\","x","b","2">>)
    @@ ("U+00C2" :> <<"\\","x","c","2">>)
    @@ ("U+00C9" :> <<"\\","x","c","9">>)
    @@ ("U+00CD" :> <<"\\","x","c","d">>)
    @@ ("U+00D1" :> <<"\\","x","d","1">>)
    @@ ("U+00E2" :> <<"\\","x","e","2">>)
    @@ ("U+00E9" :> <<"\\","x","e","9">>)
    @@ ("U+00ED" :> <<"\\","x","e","d">>)
    @@ ("U+00F1" :> <<"\\","x","f","1">>)
    @@ ("U+0130" :> <<"\\","u","0","1","3","0">>)
    @@ ("U+0307" :> <<"\\","u","0","3","0","7">>)
    @@ ("U+03A3" :> <<"\\","u","0","3","a","3">>)
    @@ ("U+03C2" :> <<"\\","u","0","3","c","2">>)
    @@ ("U+03C3" :> <<"\\","u","0","3","c","3">>)
    @@ ("U+0661" :> <<"\\","u","0","6","6","1">>)
    @@ ("U+1680" :> <<"\\","u","1","6","8","0">>)
    @@ ("U+2000" :> <<"\\","u","2","0","0","0">>)
    @@ ("U+2001" :> <<"\\","u","2","0","0","1">>)
    @@ ("U+2002" :> <<"\\","u","2","0","0","2">>)
    @@ ("U+2003" :> <<"\\","u","2","0","0","3">>)
    @@ ("U+2004" :> <<"\\","u","2","0","0","4">>)
    @@ ("U+2005" :> <<"\\","u","2","0","0","5">>)
    @@ ("U+2006" :> <<"\\","u","2","0","0","6">>)
    @@ ("U+2007" :> <<"\\","u","2","0","0","7">>)
    @@ ("U+2008" :> <<"\\","u","2","0","0","8">>)
    @@ ("U+2009" :> <<"\\","u","2","0","0","9">>)
    @@ ("U+200A" :> <<"\\","u","2","0","0","a">>)
    @@ ("U+2013" :> <<"\\","u","2","0","1","3">>)
    @@ ("U+201C" :> <<"\\","u","2","0","1","c">>)
    @@ ("U+2028" :> <<"\\","u","2","0","2","8">>)
    @@ ("U+2029" :> <<"\\","u","2","0","2","9">>)
    @@ ("U+202F" :> <<"\\","u","2","0","2","f">>)
    @@ ("U+205F" :> <<"\\","u","2","0","5","f">>)
    @@ ("U+20AC" :> <<"\\","u","2","0","a","c">>)
    @@ ("U+3000" :> <<"\\","u","3","0","0","0">>)
    @@ ("U+4E2D" :> <<"\\","u","4","e","2","d">>)

\* repr() of one character of a str whose quote is q
repr_char(c, q) ==
    IF c = "\\" THEN <<"\\", "\\">>
    ELSE IF c = q THEN <<"\\", q>>
    ELSE IF c = "\n" THEN <<"\\", "n">>
    ELSE IF c = "\t" THEN <<"\\", "t">>
    ELSE IF c = "\r" THEN <<"\\", "r">>
    ELSE IF c \in NonPrintableChars THEN escape_of[c]
    ELSE <<c>>

RECURSIVE repr_from(_, _, _)
repr_from(s, i, q) ==
    IF i > Len(s) THEN <<>> ELSE repr_char(s[i], q) \o repr_from(s, i + 1, q)

\* repr() of a str: in double quotes when the str holds a single quote and no double
\* quote, in single quotes otherwise
repr(s) ==
    LET q == IF "'" \in Range(s) /\ "\"" \notin Range(s) THEN "\"" ELSE "'"
    IN  <<q>> \o repr_from(s, 1, q) \o <<q>>

\* dict.get(key, default)
get(d, key, default) == IF key \in DOMAIN d THEN d[key] ELSE default

EmptyDict == [k \in {} |-> <<>>]

\* dict[key] = value
put(d, key, value) == [x \in DOMAIN d \cup {key} |-> IF x = key THEN value ELSE d[x]]

----------------------------------------------------------------------------
(* parse_bib_file: the parsing of `content` *)

\* last index of the maximal run of \w characters starting at from (from - 1: empty run)
word_run_end(s, from) ==
    LET k == First(from, Len(s), LAMBDA i : ~IsWord(s[i]))
    IN  IF k # 0 THEN k - 1 ELSE IF from > Len(s) THEN from - 1 ELSE Len(s)

\* last index of the maximal run of \s characters starting at from (from - 1: empty run)
space_run_end(s, from) ==
    LET k == First(from, Len(s), LAMBDA i : ~IsSpace(s[i]))
    IN  IF k # 0 THEN k - 1 ELSE IF from > Len(s) THEN from - 1 ELSE Len(s)

NoMatch == [matched |-> FALSE, group1 |-> <<>>, group2 |-> <<>>, end |-> 0]

\* bib_entry_pattern = r'@(\w+)\s*\{\s*([^,]+),' tried at position pos.
\* `end` is the index of the header's comma (match.end() is the position after it).
bib_entry_pattern_match(s, pos) ==
    IF pos <= Len(s) /\ s[pos] = "@"
    THEN LET w == word_run_end(s, pos + 1)
             q == space_run_end(s, w + 1) + 1
             c == index_from(s, ",", q + 1)
             m == space_run_end(s, q + 1)
             \* \s* is greedy but gives one character back when [^,]+ would be empty
             g == IF m + 1 <= c - 1 THEN m + 1 ELSE c - 1
         IN  IF w >= pos + 1 /\ q <= Len(s) /\ s[q] = "{" /\ c > q + 1
             THEN [matched |-> TRUE, group1 |-> SubSeq(s, pos + 1, w),
                   group2 |-> SubSeq(s, g, c - 1), end |-> c]
             ELSE NoMatch
    ELSE NoMatch

\* mutant of entry_content_end: an entry that is never closed has an empty body
RECURSIVE entry_content_end_closed_only(_, _, _)
entry_content_end_closed_only(s, pos, brace_level) ==
    LET k == First(pos, Len(s), LAMBDA i : s[i] \in {"{", "}"})
        level == IF s[k] = "{" THEN brace_level + 1 ELSE brace_level - 1
    IN  IF k = 0 THEN 1
        ELSE IF level = 0 THEN k
        ELSE entry_content_end_closed_only(s, k + 1, level)

\* the loop of lines 60-67, from brace to brace (the other characters leave
\* brace_level alone): the index of the brace that brings brace_level to 0,
\* Len(s) + 1 when the loop runs to the end of the text
RECURSIVE entry_content_end(_, _, _)
entry_content_end(s, pos, brace_level) ==
    LET k == First(pos, Len(s), LAMBDA i : s[i] \in {"{", "}"})
        level == IF s[k] = "{" THEN brace_level + 1 ELSE brace_level - 1
    IN  IF k = 0 THEN Len(s) + 1
        ELSE IF level = 0 THEN k
        ELSE entry_content_end(s, k + 1, level)

\* lines 57-67: entry_content_str after the loop, started at pos with brace_level
scan_entry_content(s, pos, brace_level) ==
    SubSeq(s, pos, entry_content_end(s, pos, brace_level) - 1)

\* entry_content_str.rsplit('}', 1)[0]
rsplit_brace(s) ==
    LET i == rindex(s, "}", Len(s))
    IN  IF i = 0 THEN s ELSE SubSeq(s, 1, i - 1)

\* re.match(r'(\w+)\s*=\s*\{(.*)\},?', line) on a stripped line without newline
field_match(line) ==
    LET w == word_run_end(line, 1)
        e == space_run_end(line, w + 1) + 1
        b == space_run_end(line, e + 1) + 1
        r == rindex(line, "}", Len(line))
    IN  IF w >= 1 /\ e <= Len(line) /\ line[e] = "=" /\ b <= Len(line) /\ line[b] = "{" /\ r > b
        THEN [matched |-> TRUE, group1 |-> SubSeq(line, 1, w),
              group2 |-> SubSeq(line, b + 1, r - 1), end |-> r]
        ELSE NoMatch

\* mutant of field_value: only the surrounding braces are left out, the value is trimmed
field_value_one_layer(group2) == strip(group2)

\* value = field_match.group(2).strip().replace('{', '').replace('}', '')
field_value(group2) == replace(replace(strip(group2), <<"{">>, <<>>), <<"}">>, <<>>)

\* the loop of lines 78-88 over the lines of one entry
RECURSIVE parse_fields(_, _)
parse_fields(lines, fields) ==
    IF lines = <<>> THEN fields
    ELSE LET line == strip(Head(lines))
             field_m == field_match(line)
         IN  IF line = <<>> \/ ~field_m.matched
             THEN parse_fields(Tail(lines), fields)
             ELSE parse_fields(Tail(lines),
                               put(fields, lower(strip(field_m.group1)), field_value(field_m.group2)))

\* lines 56-70: entry_content_str, the text the fields of an entry are parsed from,
\* for the header match that ended at the comma `end`
entry_content_str(s, end) == rsplit_brace(scan_entry_content(s, end + 1, 1))

\* lines 56-88: the fields of the entry whose header match ended at the comma `end`
entry_fields(s, end) ==
    parse_fields(split(entry_content_str(s, end), <<"\n">>), EmptyDict)

\* bib_entry_pattern.finditer(content): one [cite_key, fields] per header, in order
RECURSIVE bib_entries(_, _)
bib_entries(s, pos) ==
    LET start == First(pos, Len(s), LAMBDA i : bib_entry_pattern_match(s, i).matched)
        m == bib_entry_pattern_match(s, start)
    IN  IF start = 0 THEN <<>>
        ELSE <<[cite_key |-> strip(m.group2), fields |-> entry_fields(s, m.end)]>>
             \o bib_entries(s, m.end + 1)

\* mutant of entry_kept: every entry is stored
entry_kept_always(fields) == TRUE

\* lines 90-91: only an entry with fields is stored
entry_kept(fields) == DOMAIN fields # {}

\* mutant of collect_entries: a key that is already stored keeps its first entry
RECURSIVE collect_entries_first_wins(_, _)
collect_entries_first_wins(found, acc) ==
    IF found = <<>> THEN acc
    ELSE collect_entries_first_wins(Tail(found),
                                    IF /\ entry_kept(Head(found).fields)
                                       /\ Head(found).cite_key \notin DOMAIN acc
                                    THEN put(acc, Head(found).cite_key, Head(found).fields)
                                    ELSE acc)

\* lines 52-93: the dictionary `entries` after the loop
RECURSIVE collect_entries(_, _)
collect_entries(found, acc) ==
    IF found = <<>> THEN acc
    ELSE collect_entries(Tail(found),
                         IF entry_kept(Head(found).fields)
                         THEN put(acc, Head(found).cite_key, Head(found).fields)
                         ELSE acc)

WarnParsePrefix == <<"W","a","r","n","i","n","g",":"," ","C","o","u","l","d"," ","n","o","t"," ","p","a","r","s","e"," ","f","i","e","l","d","s"," ","f","o","r"," ","e","n","t","r","y"," ","'">>

Quote == <<"'">>

\* line 93
parse_warning(cite_key) == WarnParsePrefix \o cite_key \o Quote

\* the warnings printed by the loop of lines 52-93, in order
RECURSIVE parse_warnings(_)
parse_warnings(found) ==
    IF found = <<>> THEN <<>>
    ELSE (IF entry_kept(Head(found).fields) THEN <<>> ELSE <<parse_warning(Head(found).cite_key)>>)
         \o parse_warnings(Tail(found))

----------------------------------------------------------------------------
(* format_apa_authors, format_numbered_reference, STYLE_FORMATTERS *)

NA == <<"N","/","A">>

AndSeparator == <<" ","a","n","d"," ">>

CommaSpace == <<",", " ">>

F_author == <<"a","u","t","h","o","r">>

F_year == <<"y","e","a","r">>

F_title == <<"t","i","t","l","e">>

F_journal == <<"j","o","u","r","n","a","l">>

F_volume == <<"v","o","l","u","m","e">>

F_number == <<"n","u","m","b","e","r">>

F_pages == <<"p","a","g","e","s">>

\* line 116: `if not name_parts: continue`
skip_author(name_parts) == name_parts = <<>>

\* line 120: initials = [part[0] + '.' for part in name_parts[:-1]]
initials_of(name_parts) == [i \in 1..(Len(name_parts) - 1) |-> <<name_parts[i][1], ".">>]

\* mutant of format_author: the first token is taken as the surname
format_author_surname_first(name_parts) ==
    name_parts[1] \o CommaSpace
    \o join([i \in 1..(Len(name_parts) - 1) |-> <<name_parts[i + 1][1], ".">>], <<" ">>)

\* lines 119-122: f"{last_name}, {' '.join(initials)}" for a non-empty name_parts
format_author(name_parts) ==
    name_parts[Len(name_parts)] \o CommaSpace \o join(initials_of(name_parts), <<" ">>)

\* line 111: authors = [a.strip() for a in authors_string.split(' and ')]
authors_of(authors_string) ==
    LET parts == split(authors_string, AndSeparator)
    IN  [i \in 1..Len(parts) |-> strip(parts[i])]

\* name_parts[-1] on an empty list (line 119) or part[0] on an empty part of
\* name_parts[:-1] (line 120); the last part is only concatenated (line 122)
author_raises(name_parts) ==
    /\ ~skip_author(name_parts)
    /\ \/ name_parts = <<>>
       \/ \E i \in 1..(Len(name_parts) - 1) : name_parts[i] = <<>>

\* the loop of lines 114-122
RECURSIVE formatted_authors(_)
formatted_authors(authors) ==
    IF authors = <<>> THEN <<>>
    ELSE LET name_parts == split_ws(Head(authors))
         IN  (IF skip_author(name_parts) \/ author_raises(name_parts)
              THEN <<>>
              ELSE <<format_author(name_parts)>>)
             \o formatted_authors(Tail(authors))

\* lines 108-124
format_apa_authors(authors_string) ==
    IF authors_string = <<>> THEN NA
    ELSE join(formatted_authors(authors_of(authors_string)), CommaSpace)

\* whether format_apa_authors ends with an exception instead of a value
format_apa_authors_raises(authors_string) ==
    /\ authors_string # <<>>
    /\ \E i \in 1..Len(authors_of(authors_string)) :
           author_raises(split_ws(authors_of(authors_string)[i]))

\* the three characters the source file holds on line 166 as replacement for '--',
\* each written by its code point (U+2013, the en dash, is not among them)
DashReplacement == <<"U+00E2", "U+20AC", "U+201C">>

\* filter(None, ref_parts)
RECURSIVE filter_none(_)
filter_none(parts) ==
    IF parts = <<>> THEN <<>>
    ELSE (IF Head(parts) = <<>> THEN <<>> ELSE <<Head(parts)>>) \o filter_none(Tail(parts))

\* mutant of TitleDefault: a missing title defaults to the empty string
TitleDefault_empty == <<>>

\* line 144: the default of entry_data.get('title', 'N/A')
TitleDefault == NA

\* mutant of issue_info: the number is only shown together with a volume
issue_info_number_needs_volume(volume, number_field) ==
    IF volume # <<>>
    THEN volume \o (IF number_field # <<>> THEN <<"(">> \o number_field \o <<")">> ELSE <<>>)
    ELSE <<>>

\* lines 156-160: issue_info
issue_info(volume, number_field) ==
    (IF volume # <<>> THEN volume ELSE <<>>)
    \o (IF number_field # <<>> THEN <<"(">> \o number_field \o <<")">> ELSE <<>>)

\* lines 139-169
format_numbered_reference(entry_data, number) ==
    LET authors == format_apa_authors(get(entry_data, F_author, NA))
        year == get(entry_data, F_year, NA)
        title == get(entry_data, F_title, TitleDefault)
        journal == get(entry_data, F_journal, <<>>)
        volume == get(entry_data, F_volume, <<>>)
        number_field == get(entry_data, F_number, <<>>)
        pages == get(entry_data, F_pages, <<>>)
        issue == issue_info(volume, number_field)
        ref_parts ==
            << <<"*","*","[">> \o str(number) \o <<"]","*","*">>,
               authors,
               <<"(">> \o year \o <<")", ".">>,
               title \o <<".">> >>
            \o (IF journal # <<>> THEN << <<"*">> \o journal \o <<"*", ".">> >> ELSE <<>>)
            \o (IF issue # <<>> THEN << issue \o <<",">> >> ELSE <<>>)
            \o (IF pages # <<>>
                THEN << <<"p","p","."," ">> \o replace(pages, <<"-","-">>, DashReplacement) >>
                ELSE <<>>)
    IN  join(filter_none(ref_parts), <<" ">>)

\* whether format_numbered_reference ends with an exception
format_numbered_reference_raises(entry_data) ==
    format_apa_authors_raises(get(entry_data, F_author, NA))

Numbered ==
    <<"n","u","m","b","e","r","e","d">>

\* the keys of STYLE_FORMATTERS (lines 173-175)
STYLE_FORMATTERS == {Numbered}

\* mutant of style_registered: the parser takes any style name
style_registered_any(style_name) == TRUE

\* line 187: choices=STYLE_FORMATTERS.keys()
style_registered(style_name) == style_name \in STYLE_FORMATTERS

\* line 235: STYLE_FORMATTERS[args.style] raises KeyError for a name that is not a key
formatter_lookup_raises(style_name) == style_name \notin STYLE_FORMATTERS

\* STYLE_FORMATTERS[style](entry_data, number)
formatter(style_name, entry_data, number) ==
    CASE style_name = Numbered -> format_numbered_reference(entry_data, number)

formatter_raises(style_name, entry_data) ==
    CASE style_name = Numbered -> format_numbered_reference_raises(entry_data)

----------------------------------------------------------------------------
(* main: steps 3 to 6 *)

CitePrefix == <<"\\","c","i","t","e","{">>

\* mutant of citation_pattern_match: the group is [^}]*, it may be empty
citation_pattern_match_empty_group(text, pos) ==
    IF starts_at(text, pos, CitePrefix)
    THEN index_from(text, "}", pos + Len(CitePrefix))
    ELSE 0

\* citation_pattern = r'\\cite\{([^}]+)\}' tried at position pos: the index of the
\* closing brace of the match, 0 when the pattern does not match at pos
citation_pattern_match(text, pos) ==
    IF starts_at(text, pos, CitePrefix)
    THEN LET j == index_from(text, "}", pos + Len(CitePrefix))
         IN  IF j > pos + Len(CitePrefix) THEN j ELSE 0
    ELSE 0

\* the start of the leftmost match at or after pos, 0 when there is none
next_citation(text, pos) ==
    First(pos, Len(text), LAMBDA i : citation_pattern_match(text, i) # 0)

\* match.group(1) of the match at pos that closes at j
citation_group(text, pos, j) == SubSeq(text, pos + Len(CitePrefix), j - 1)

\* mutant of marker_keys: the keys are not stripped
marker_keys_unstripped(keys_str) == split(keys_str, <<",">>)

\* keys = [k.strip() for k in keys_str.split(',')]   (lines 208 and 221)
marker_keys(keys_str) ==
    LET items == split(keys_str, <<",">>)
    IN  [i \in 1..Len(items) |-> strip(items[i])]

\* lines 209-211: the OrderedDict keeps the first insertion of a key
RECURSIVE add_keys(_, _)
add_keys(cited_keys, keys) ==
    IF keys = <<>> THEN cited_keys
    ELSE add_keys(IF Head(keys) \in Range(cited_keys)
                  THEN cited_keys
                  ELSE Append(cited_keys, Head(keys)),
                  Tail(keys))

\* lines 204-213: the loop over citation_pattern.finditer(markdown_text)
RECURSIVE scan_cited_keys(_, _, _)
scan_cited_keys(text, pos, cited_keys) ==
    LET start == next_citation(text, pos)
        j == citation_pattern_match(text, start)
    IN  IF start = 0 THEN cited_keys
        ELSE scan_cited_keys(text, j + 1,
                             add_keys(cited_keys, marker_keys(citation_group(text, start, j))))

\* mutant of citation_number: the numbers start at 0
citation_number_zero_based(i) == i

\* line 216: the number of the key at 0-based index i of enumerate()
citation_number(i) == i + 1

\* mutant of build_citation_map: the last cited key gets no number
build_citation_map_without_last(keys_list) ==
    [key \in Range(SubSeq(keys_list, 1, Len(keys_list) - 1)) |->
        citation_number((CHOOSE i \in 1..Len(keys_list) :
                            /\ keys_list[i] = key
                            /\ \A j \in 1..Len(keys_list) : keys_list[j] = key => j <= i) - 1)]

\* line 216: citation_map = {key: i + 1 for i, key in enumerate(cited_keys_list)}
build_citation_map(keys_list) ==
    [key \in Range(keys_list) |->
        citation_number((CHOOSE i \in 1..Len(keys_list) :
                            /\ keys_list[i] = key
                            /\ \A j \in 1..Len(keys_list) : keys_list[j] = key => j <= i) - 1)]

\* line 224: the test that decides between a number and '?'
key_resolved(key, cmap) == key \in DOMAIN cmap

\* lines 223-228: the item rendered for one key
rendered_key(key, cmap) == IF key_resolved(key, cmap) THEN str(cmap[key]) ELSE <<"?">>

\* mutant of citation_replacer: the items are joined by a comma without space
citation_replacer_comma_only(keys_str, cmap) ==
    LET keys == marker_keys(keys_str)
    IN  <<"[">> \o join([i \in 1..Len(keys) |-> rendered_key(keys[i], cmap)], <<",">>) \o <<"]">>

\* lines 219-229: the replacement text of one marker
citation_replacer(keys_str, cmap) ==
    LET keys == marker_keys(keys_str)
    IN  <<"[">> \o join([i \in 1..Len(keys) |-> rendered_key(keys[i], cmap)], CommaSpace) \o <<"]">>

WarnKeyPrefix == <<"W","a","r","n","i","n","g",":"," ","C","i","t","a","t","i","o","n"," ","k","e","y"," ","'">>

WarnKeySuffix == <<"'"," ","n","o","t"," ","f","o","u","n","d"," ","i","n"," ","b","i","b"," ","f","i","l","e",".">>

\* line 227
key_warning(key) == WarnKeyPrefix \o key \o WarnKeySuffix

\* the warnings citation_replacer prints for one marker, in order
RECURSIVE replacer_warnings(_, _)
replacer_warnings(keys, cmap) ==
    IF keys = <<>> THEN <<>>
    ELSE (IF key_resolved(Head(keys), cmap) THEN <<>> ELSE <<key_warning(Head(keys))>>)
         \o replacer_warnings(Tail(keys), cmap)

\* mutant of citation_sub: only the leftmost match is replaced (sub with count=1)
citation_sub_first_only(text, pos, cmap) ==
    LET start == next_citation(text, pos)
        j == citation_pattern_match(text, start)
    IN  IF start = 0 THEN SubSeq(text, pos, Len(text))
        ELSE SubSeq(text, pos, start - 1)
             \o citation_replacer(citation_group(text, start, j), cmap)
             \o SubSeq(text, j + 1, Len(text))

\* mutant of citation_sub: the text after the last match is left out
RECURSIVE citation_sub_without_tail(_, _, _)
citation_sub_without_tail(text, pos, cmap) ==
    LET start == next_citation(text, pos)
        j == citation_pattern_match(text, start)
    IN  IF start = 0 THEN <<>>
        ELSE SubSeq(text, pos, start - 1)
             \o citation_replacer(citation_group(text, start, j), cmap)
             \o citation_sub_without_tail(text, j + 1, cmap)

\* line 231: citation_pattern.sub(citation_replacer, markdown_text)
RECURSIVE citation_sub(_, _, _)
citation_sub(text, pos, cmap) ==
    LET start == next_citation(text, pos)
        j == citation_pattern_match(text, start)
    IN  IF start = 0 THEN SubSeq(text, pos, Len(text))
        ELSE SubSeq(text, pos, start - 1)
             \o citation_replacer(citation_group(text, start, j), cmap)
             \o citation_sub(text, j + 1, cmap)

\* the lines citation_replacer writes to stderr during line 231
RECURSIVE sub_warnings(_, _, _)
sub_warnings(text, pos, cmap) ==
    LET start == next_citation(text, pos)
        j == citation_pattern_match(text, start)
    IN  IF start = 0 THEN <<>>
        ELSE replacer_warnings(marker_keys(citation_group(text, start, j)), cmap)
             \o sub_warnings(text, j + 1, cmap)

\* line 238: the test that decides whether a cited key gets a reference
has_entry(key, bib) == key \in DOMAIN bib

\* mutant of build_references: the references are numbered consecutively, an
\* absent key does not use up a number
RECURSIVE build_references_renumbered(_, _, _, _)
build_references_renumbered(keys_list, i, bib, style_name) ==
    IF i > Len(keys_list) THEN <<>>
    ELSE (IF has_entry(keys_list[i], bib)
          THEN <<formatter(style_name, bib[keys_list[i]],
                           1 + Cardinality({j \in 1..(i - 1) : has_entry(keys_list[j], bib)}))>>
          ELSE <<>>)
         \o build_references_renumbered(keys_list, i + 1, bib, style_name)

\* lines 234-242: the list `references`; i is the 1-based position in keys_list
RECURSIVE build_references(_, _, _, _)
build_references(keys_list, i, bib, style_name) ==
    IF i > Len(keys_list) THEN <<>>
    ELSE (IF has_entry(keys_list[i], bib)
          THEN <<formatter(style_name, bib[keys_list[i]], citation_number(i - 1))>>
          ELSE <<>>)
         \o build_references(keys_list, i + 1, bib, style_name)

\* whether a formatter call of the loop of lines 236-242 ends with an exception
build_references_raises(keys_list, bib, style_name) ==
    \E i \in 1..Len(keys_list) :
        has_entry(keys_list[i], bib) /\ formatter_raises(style_name, bib[keys_list[i]])

----------------------------------------------------------------------------
(* The inputs of a run: the command line, the bibliography file, standard input *)

\* the most segments a document is made of
MaxSegs == 2

\* the most entries a bibliography text is made of
MaxEntries == 2

\* an entry for key a: three field lines, the second author name is empty
Entry_a ==
    <<"@","a","r","t","i","c","l","e","{","a",",","\n"," "," ","a","u","t","h","o","r",
      " ","="," ","{","A","n","n"," ","B"," ","L","e","e"," ","a","n","d"," "," ","a",
      "n","d"," ","B","o"," ","E","k","}",",","\n"," "," ","y","e","a","r"," ","="," ",
      "{","2","0","2","0","}",",","\n"," "," ","t","i","t","l","e"," ","="," ","{","T",
      "}",",","\n","}","\n">>

\* an entry for key b with a single field line
Entry_b_one_field ==
    <<"@","b","o","o","k","{","b",",","\n"," "," ","t","i","t","l","e"," ","="," ","{",
      "O","n","l","y","}","\n","}","\n">>

\* an entry for key b without author and year, with nested braces in a value
Entry_b ==
    <<"@","m","i","s","c","{","b",",","\n"," "," ","t","i","t","l","e"," ","="," ","{",
      "A"," ","{","B","}"," ","C","}",",","\n"," "," ","v","o","l","u","m","e"," ","=",
      " ","{","5","}",",","\n"," "," ","p","a","g","e","s"," ","="," ","{","1","-","-",
      "2","}",",","\n"," "," ","n","o","t","e"," ","="," ","{","n","}","\n","}","\n">>

\* an entry for key b without any field line
Entry_b_no_fields ==
    <<"@","m","i","s","c","{","b",",","\n","}","\n">>

\* a second entry for key a, with another year, without author line and title line
Entry_a_2001 ==
    <<"@","b","o","o","k","{","a",",","\n"," "," ","y","e","a","r"," ","="," ","{","2",
      "0","0","1","}",",","\n"," "," ","n","o","t","e"," ","="," ","{","U","}",",",
      "\n","}","\n">>

\* the bibliography of the smith2020 example: one field per line, closing brace on its own line
SmithBib ==
    <<"@","a","r","t","i","c","l","e","{","s","m","i","t","h","2","0","2","0",",","\n",
      " "," ","a","u","t","h","o","r"," ","="," ","{","J","o","h","n"," ","S","m","i",
      "t","h"," ","a","n","d"," ","J","a","n","e"," ","D","o","e","}",",","\n"," "," ",
      "y","e","a","r"," ","="," ","{","2","0","2","0","}",",","\n"," "," ","t","i","t",
      "l","e"," ","="," ","{","A"," ","S","t","u","d","y","}",",","\n"," "," ","j","o",
      "u","r","n","a","l"," ","="," ","{","J","o","u","r","n","a","l"," ","o","f"," ",
      "X","}",",","\n"," "," ","v","o","l","u","m","e"," ","="," ","{","5","}",",","\n",
      " "," ","n","u","m","b","e","r"," ","="," ","{","2","}",",","\n"," "," ","p","a",
      "g","e","s"," ","="," ","{","1","0","-","-","2","0","}",",","\n","}","\n">>

\* a bibliography whose one entry, for key c, has a number and no volume
NumberOnlyBib ==
    <<"@","m","i","s","c","{","c",",","\n"," "," ","n","u","m","b","e","r"," ","="," ",
      "{","7","}",",","\n"," "," ","n","o","t","e"," ","="," ","{","x","}",",","\n","}",
      "\n">>

\* a bibliography whose one entry, for key b, is never closed: the brace depth does
\* not return to 0
UnbalancedBib ==
    <<"@","m","i","s","c","{","b",",","\n"," "," ","t","i","t","l","e"," ","="," ","{",
      "X"," ","{","Y","}",",","\n"," "," ","y","e","a","r"," ","="," ","{","1","}",",",
      "\n">>

\* a text without any entry
MalformedBib ==
    <<"n","o"," ","e","n","t","r","y"," ",","," ","h","e","r","e"," ","{">>

BibEntryTexts == <<Entry_a, Entry_b_one_field, Entry_b, Entry_b_no_fields, Entry_a_2001>>

RECURSIVE concat(_)
concat(parts) == IF parts = <<>> THEN <<>> ELSE Head(parts) \o concat(Tail(parts))

\* the texts a readable bibliography file may hold
BibTexts ==
    {concat([i \in 1..Len(pick) |-> BibEntryTexts[pick[i]]]) :
        pick \in UNION {[1..n -> 1..Len(BibEntryTexts)] : n \in 0..MaxEntries}}
    \cup {SmithBib, NumberOnlyBib, UnbalancedBib, MalformedBib}

Seg_a ==
    <<"\\","c","i","t","e","{","a","}">>

Seg_b_a ==
    <<"\\","c","i","t","e","{","b",","," ","a","}">>

Seg_c_b ==
    <<"\\","c","i","t","e","{","c",",","b","}">>

Seg_a_empty_b ==
    <<"\\","c","i","t","e","{","a",",",",","b","}">>

Seg_text ==
    <<" ","x"," ">>

\* a marker that holds the same key twice
Seg_b_b ==
    <<"\\","c","i","t","e","{","b",",","b"," ","}">>

\* markers, plain text, an opening `\cite{` without its brace, a lone closing brace
DocSegments ==
    <<Seg_a, Seg_b_a, Seg_c_b, Seg_a_empty_b, Seg_text, CitePrefix, <<"}">>, Seg_b_b>>

SmithDoc ==
    <<"T","e","x","t"," ","\\","c","i","t","e","{","s","m","i","t","h","2","0","2","0",
      "}",".">>

FooDoc ==
    <<"S","e","e"," ","\\","c","i","t","e","{","f","o","o","}",".">>

\* the texts standard input may hold
Docs ==
    {concat([i \in 1..Len(pick) |-> DocSegments[pick[i]]]) :
        pick \in UNION {[1..n -> 1..Len(DocSegments)] : n \in 0..MaxSegs}}
    \cup {SmithDoc, FooDoc}

RefsBib ==
    <<"r","e","f","s",".","b","i","b">>

OtherBib ==
    <<"l","i","b","/","o","t","h","e","r",".","b","i","b">>

Apa ==
    <<"a","p","a">>

BibPaths == {RefsBib, OtherBib}

\* a style name with a single quote: repr() writes it in double quotes
ItsStyle ==
    <<"i","t","'","s">>

StyleNames == {Numbered, Apa, ItsStyle}

Utf8 ==
    <<"u","t","f","-","8">>

Ascii ==
    <<"a","s","c","i","i">>

InputOutputError ==
    <<"[","E","r","r","n","o"," ","5","]"," ","I","n","p","u","t","/","o","u","t","p",
      "u","t"," ","e","r","r","o","r">>

Utf8DecodeError ==
    <<"'","u","t","f","-","8","'"," ","c","o","d","e","c"," ","c","a","n","'","t"," ",
      "d","e","c","o","d","e"," ","b","y","t","e"," ","0","x","f","f"," ","i","n"," ",
      "p","o","s","i","t","i","o","n"," ","0",":"," ","i","n","v","a","l","i","d"," ",
      "s","t","a","r","t"," ","b","y","t","e">>

AsciiDecodeError ==
    <<"'","a","s","c","i","i","'"," ","c","o","d","e","c"," ","c","a","n","'","t"," ",
      "d","e","c","o","d","e"," ","b","y","t","e"," ","0","x","f","f"," ","i","n"," ",
      "p","o","s","i","t","i","o","n"," ","0",":"," ","o","r","d","i","n","a","l"," ",
      "n","o","t"," ","i","n"," ","r","a","n","g","e","(","1","2","8",")">>

\* str(e) of the PermissionError of open(): the file name, written with repr(), is
\* part of it
PermissionDenied(filepath) ==
    <<"[","E","r","r","n","o"," ","1","3","]"," ","P","e","r","m","i","s","s","i","o",
      "n"," ","d","e","n","i","e","d",":"," ">>
    \o repr(filepath)

\* line 44: the texts (str(e)) of the exceptions other than FileNotFoundError that
\* open(filepath, 'r', encoding='utf-8') and f.read() raise: no permission, an I/O
\* error of the device, a file that starts with the byte 0xff
open_error_texts(filepath) == {PermissionDenied(filepath), InputOutputError, Utf8DecodeError}

\* line 199: the texts (str(e)) of the exceptions sys.stdin.read() raises: an I/O
\* error of the device and, for an input that starts with the byte 0xff, the decode
\* error of the encoding of standard input
stdin_error_texts(encoding) ==
    {InputOutputError, IF encoding = Ascii THEN AsciiDecodeError ELSE Utf8DecodeError}

ErrNotFoundPrefix ==
    <<"E","r","r","o","r",":"," ","B","i","b"," ","f","i","l","e"," ","n","o","t"," ",
      "f","o","u","n","d"," ","a","t"," ","'">>

ErrReadBibPrefix ==
    <<"E","r","r","o","r",":"," ","C","o","u","l","d"," ","n","o","t"," ","r","e","a",
      "d"," ","b","i","b"," ","f","i","l","e"," ","'">>

ErrStdinPrefix ==
    <<"E","r","r","o","r",":"," ","C","o","u","l","d"," ","n","o","t"," ","r","e","a",
      "d"," ","f","r","o","m"," ","s","t","a","n","d","a","r","d"," ","i","n","p","u",
      "t",":"," ">>

\* argparse's usage line: the program name and the positionals, `choices` in braces
UsageLine ==
    <<"u","s","a","g","e",":"," ","c","i","t","e","_","m","d",".","p","y"," ","[","-",
      "h","]"," ","b","i","b","_","f","i","l","e"," ","{","n","u","m","b","e","r","e",
      "d","}">>

UsagePrefix ==
    <<"c","i","t","e","_","m","d",".","p","y",":"," ","e","r","r","o","r",":"," ","a",
      "r","g","u","m","e","n","t"," ","s","t","y","l","e",":"," ","i","n","v","a","l",
      "i","d"," ","c","h","o","i","c","e",":"," ">>

UsageSuffix ==
    <<" ","(","c","h","o","o","s","e"," ","f","r","o","m"," ","'","n","u","m","b","e",
      "r","e","d","'",")">>

ReferencesHeading ==
    <<"\n","\n","#","#"," ","R","e","f","e","r","e","n","c","e","s">>

SemicolonSpace ==
    <<";"," ">>

\* line 42
not_found_message(filepath) == ErrNotFoundPrefix \o filepath \o Quote

\* line 45
read_error_message(filepath, e) == ErrReadBibPrefix \o filepath \o <<"'", ":", " ">> \o e

\* line 200
stdin_error_message(e) == ErrStdinPrefix \o e

\* argparse's error line for a style outside `choices` (line 187): the name is
\* written with repr()
usage_message(style_name) == UsagePrefix \o repr(style_name) \o UsageSuffix

\* the path of the script, as the interpreter writes it in a traceback (absolute)
ScriptPath ==
    <<"/","r","o","o","t","/","w","o","r","k","s","p","a","c","e","/","s","r","c","/",
      "c","i","t","e","_","m","d",".","p","y">>

\* the first line of a traceback's frame: `  File "<path>", line <n>, in <function>`
frame(lineno, function) ==
    <<" "," ","F","i","l","e"," ","\"">>
    \o ScriptPath
    \o <<"\"",","," ","l","i","n","e"," ">>
    \o str(lineno)
    \o <<","," ","i","n"," ">>
    \o function

\* the first lines of every traceback: the header and the frame of the call of
\* main() on line 252
TracebackHead ==
    <<<<"T","r","a","c","e","b","a","c","k"," ","(","m","o","s","t"," ","r","e","c",
        "e","n","t"," ","c","a","l","l"," ","l","a","s","t",")",":">>,
      frame(252, <<"<","m","o","d","u","l","e",">">>),
      <<" "," "," "," ","m","a","i","n","(",")">>>>

\* the frame line of a line of main()
main_frame(lineno) == frame(lineno, <<"m","a","i","n">>)

\* what the interpreter writes to stderr for the KeyError of line 235: the frame,
\* the source line, the marks under the subscript, `KeyError: ` and the key's repr()
key_error_traceback(style_name) ==
    TracebackHead
    \o <<main_frame(235),
         <<" "," "," "," ","f","o","r","m","a","t","t","e","r"," ","="," ","S","T","Y",
           "L","E","_","F","O","R","M","A","T","T","E","R","S","[","a","r","g","s",".",
           "s","t","y","l","e","]">>,
         <<" "," "," "," "," "," "," "," "," "," "," "," "," "," "," "," ","~","~","~",
           "~","~","~","~","~","~","~","~","~","~","~","~","~","^","^","^","^","^","^",
           "^","^","^","^","^","^">>,
         <<"K","e","y","E","r","r","o","r",":"," ">>
         \o repr(style_name)>>

\* what the interpreter writes to stderr for the IndexError of part[0] (line 120),
\* raised below the formatter call of line 239: the frames of lines 239, 141, 120
\* and of the list comprehension of line 120, each with its source line and marks
index_error_traceback ==
    TracebackHead
    \o <<main_frame(239),
         <<" "," "," "," ","f","o","r","m","a","t","t","e","d","_","r","e","f"," ","=",
           " ","f","o","r","m","a","t","t","e","r","(","b","i","b","_","d","a","t","a",
           "[","k","e","y","]",","," ","n","u","m","b","e","r",")">>,
         <<" "," "," "," "," "," "," "," "," "," "," "," "," "," "," "," "," "," "," ",
           " ","^","^","^","^","^","^","^","^","^","^","^","^","^","^","^","^","^","^",
           "^","^","^","^","^","^","^","^","^","^","^","^","^","^">>,
         frame(141, <<"f","o","r","m","a","t","_","n","u","m","b","e","r","e","d","_",
                      "r","e","f","e","r","e","n","c","e">>),
         <<" "," "," "," ","a","u","t","h","o","r","s"," ","="," ","f","o","r","m","a",
           "t","_","a","p","a","_","a","u","t","h","o","r","s","(","a","u","t","h","o",
           "r","s","_","r","a","w",")">>,
         <<" "," "," "," "," "," "," "," "," "," "," "," "," "," ","^","^","^","^","^",
           "^","^","^","^","^","^","^","^","^","^","^","^","^","^","^","^","^","^","^",
           "^","^","^","^","^","^","^">>,
         frame(120, <<"f","o","r","m","a","t","_","a","p","a","_","a","u","t","h","o",
                      "r","s">>),
         <<" "," "," "," ","i","n","i","t","i","a","l","s"," ","="," ","[","p","a","r",
           "t","[","0","]"," ","+"," ","'",".","'"," ","f","o","r"," ","p","a","r","t",
           " ","i","n"," ","n","a","m","e","_","p","a","r","t","s","[",":","-","1","]",
           "]">>,
         <<" "," "," "," "," "," "," "," "," "," "," "," "," "," "," ","^","^","^","^",
           "^","^","^","^","^","^","^","^","^","^","^","^","^","^","^","^","^","^","^",
           "^","^","^","^","^","^","^","^","^","^","^","^","^","^","^","^","^","^","^",
           "^">>,
         frame(120, <<"<","l","i","s","t","c","o","m","p",">">>),
         <<" "," "," "," ","i","n","i","t","i","a","l","s"," ","="," ","[","p","a","r",
           "t","[","0","]"," ","+"," ","'",".","'"," ","f","o","r"," ","p","a","r","t",
           " ","i","n"," ","n","a","m","e","_","p","a","r","t","s","[",":","-","1","]",
           "]">>,
         <<" "," "," "," "," "," "," "," "," "," "," "," "," "," "," "," ","~","~","~",
           "~","^","^","^">>,
         <<"I","n","d","e","x","E","r","r","o","r",":"," ","s","t","r","i","n","g"," ",
           "i","n","d","e","x"," ","o","u","t"," ","o","f"," ","r","a","n","g","e">>>>

\* sys.stdout can write the character: UTF-8 encodes every character of a str that
\* was decoded from UTF-8, ASCII the characters below 128
can_encode(c, encoding) == encoding = Utf8 \/ c \notin NonAsciiChars

\* print(text) raises UnicodeEncodeError: some character of text cannot be encoded
print_raises(text, encoding) == \E i \in 1..Len(text) : ~can_encode(text[i], encoding)

\* the last line of the traceback of that UnicodeEncodeError: it names the first run
\* of characters that cannot be encoded, by 0-based positions:
\* `UnicodeEncodeError: '<encoding>' codec can't encode character '<escape>' in
\* position <n>: ordinal not in range(128)`, or `characters in position <n>-<m>`
encode_error_line(text, encoding) ==
    LET start == First(1, Len(text), LAMBDA i : ~can_encode(text[i], encoding))
        next == First(start, Len(text), LAMBDA i : can_encode(text[i], encoding))
        stop == IF next = 0 THEN Len(text) ELSE next - 1
    IN  <<"U","n","i","c","o","d","e","E","n","c","o","d","e","E","r","r","o","r",":",
          " ","'">>
        \o encoding
        \o <<"'"," ","c","o","d","e","c"," ","c","a","n","'","t"," ","e","n","c","o",
             "d","e"," ">>
        \o (IF stop = start
            THEN <<"c","h","a","r","a","c","t","e","r"," ","'">>
                 \o escape_of[text[start]]
                 \o <<"'"," ","i","n"," ","p","o","s","i","t","i","o","n"," ">>
                 \o str(start - 1)
            ELSE <<"c","h","a","r","a","c","t","e","r","s"," ","i","n"," ","p","o","s",
                   "i","t","i","o","n"," ">>
                 \o str(start - 1) \o <<"-">> \o str(stop - 1))
        \o <<":"," ","o","r","d","i","n","a","l"," ","n","o","t"," ","i","n"," ","r",
             "a","n","g","e","(","1","2","8",")">>

\* line 245 as a traceback shows it
SourceLine245 ==
    <<" "," "," "," ","p","r","i","n","t","(","m","o","d","i","f","i","e","d","_","t",
      "e","x","t",")">>

\* line 248 as a traceback shows it
SourceLine248 ==
    <<" "," "," "," ","p","r","i","n","t","(","\"",";"," ","\"",".","j","o","i","n",
      "(","r","e","f","e","r","e","n","c","e","s",")",")">>

\* what the interpreter writes to stderr when the print of line `lineno` raises
print_traceback(lineno, source_line, text, encoding) ==
    TracebackHead \o <<main_frame(lineno), source_line, encode_error_line(text, encoding)>>

None == [is_none |-> TRUE, entries |-> EmptyDict]

\* mutant of bib_unreadable: the None result is not checked
bib_unreadable_ignored(data) == FALSE

\* line 193: `if bib_data is None`
bib_unreadable(data) == data.is_none

\* lines 194 and 201: the status given to sys.exit()
ExitFailure == 1

\* mutant of has_references: the section is printed unconditionally
has_references_always(refs) == TRUE

\* line 246: `if references`
has_references(refs) == refs # <<>>

----------------------------------------------------------------------------
(* main() and parse_bib_file() as a state machine *)

Init ==
    /\ pc = "parse_args"
    /\ bib_file \in BibPaths
    /\ style \in StyleNames
    /\ stdio_encoding \in {Utf8, Ascii}
    /\ content = <<>>
    /\ entries = EmptyDict
    /\ bib_data = None
    /\ markdown_text = <<>>
    /\ cited_keys_list = <<>>
    /\ citation_map = EmptyDict
    /\ modified_text = <<>>
    /\ references = <<>>
    /\ stdout = <<>>
    /\ stderr = <<>>
    /\ exit_code = <<>>
    /\ trace = <<>>

\* lines 182-189: argparse accepts the style only if it is a key of STYLE_FORMATTERS,
\* and otherwise writes its usage line and its error line to stderr and ends the
\* process with status 2
ParseArgs ==
    /\ pc = "parse_args"
    /\ IF style_registered(style)
       THEN /\ pc' = "open_bib"
            /\ trace' = Append(trace, "args_parsed")
            /\ UNCHANGED <<stderr, exit_code>>
       ELSE /\ pc' = "exited"
            /\ stderr' = stderr \o <<UsageLine, usage_message(style)>>
            /\ exit_code' = <<2>>
            /\ trace' = Append(trace, "usage_error")
    /\ UNCHANGED <<bib_file, style, stdio_encoding, content, entries, bib_data, markdown_text,
                   cited_keys_list, citation_map, modified_text, references, stdout>>

\* lines 41-43: open() raises FileNotFoundError
OpenBibNotFound ==
    /\ pc = "open_bib"
    /\ stderr' = Append(stderr, not_found_message(bib_file))
    /\ bib_data' = None
    /\ pc' = "check_bib"
    /\ trace' = Append(trace, "bib_read_failed")
    /\ UNCHANGED <<bib_file, style, stdio_encoding, content, entries, markdown_text, cited_keys_list,
                   citation_map, modified_text, references, stdout, exit_code>>

\* lines 44-46: open() or read() raises another exception
OpenBibError ==
    /\ pc = "open_bib"
    /\ \E e \in open_error_texts(bib_file) :
           stderr' = Append(stderr, read_error_message(bib_file, e))
    /\ bib_data' = None
    /\ pc' = "check_bib"
    /\ trace' = Append(trace, "bib_read_failed")
    /\ UNCHANGED <<bib_file, style, stdio_encoding, content, entries, markdown_text, cited_keys_list,
                   citation_map, modified_text, references, stdout, exit_code>>

\* lines 38-40: the file is read
ReadBib ==
    /\ pc = "open_bib"
    /\ \E text \in BibTexts : content' = text
    /\ pc' = "parse_bib"
    /\ trace' = Append(trace, "bib_read")
    /\ UNCHANGED <<bib_file, style, stdio_encoding, entries, bib_data, markdown_text, cited_keys_list,
                   citation_map, modified_text, references, stdout, stderr, exit_code>>

\* lines 48-93: the loop over the entry headers
ParseBib ==
    /\ pc = "parse_bib"
    /\ LET found == bib_entries(content, 1)
       IN  /\ entries' = collect_entries(found, EmptyDict)
           /\ stderr' = stderr \o parse_warnings(found)
    /\ pc' = "return_bib"
    /\ trace' = Append(trace, "bib_parsed")
    /\ UNCHANGED <<bib_file, style, stdio_encoding, content, bib_data, markdown_text, cited_keys_list,
                   citation_map, modified_text, references, stdout, exit_code>>

\* lines 95 and 192: parse_bib_file returns `entries`, its locals are gone
ReturnBib ==
    /\ pc = "return_bib"
    /\ bib_data' = [is_none |-> FALSE, entries |-> entries]
    /\ content' = <<>>
    /\ entries' = EmptyDict
    /\ pc' = "check_bib"
    /\ trace' = Append(trace, "bib_returned")
    /\ UNCHANGED <<bib_file, style, stdio_encoding, markdown_text, cited_keys_list, citation_map,
                   modified_text, references, stdout, stderr, exit_code>>

\* mutant of CheckBib: after a readable bibliography the scan starts at once, standard
\* input is not read
CheckBib_without_read ==
    /\ pc = "check_bib"
    /\ IF bib_unreadable(bib_data)
       THEN /\ pc' = "exited"
            /\ exit_code' = <<ExitFailure>>
            /\ trace' = Append(trace, "exit")
       ELSE /\ pc' = "scan"
            /\ UNCHANGED <<exit_code, trace>>
    /\ UNCHANGED <<bib_file, style, stdio_encoding, content, entries, bib_data, markdown_text,
                   cited_keys_list, citation_map, modified_text, references, stdout, stderr>>

\* lines 193-194
CheckBib ==
    /\ pc = "check_bib"
    /\ IF bib_unreadable(bib_data)
       THEN /\ pc' = "exited"
            /\ exit_code' = <<ExitFailure>>
            /\ trace' = Append(trace, "exit")
       ELSE /\ pc' = "read_stdin"
            /\ UNCHANGED <<exit_code, trace>>
    /\ UNCHANGED <<bib_file, style, stdio_encoding, content, entries, bib_data, markdown_text,
                   cited_keys_list, citation_map, modified_text, references, stdout, stderr>>

\* line 198
ReadStdin ==
    /\ pc = "read_stdin"
    /\ \E text \in Docs : markdown_text' = text
    /\ pc' = "scan"
    /\ trace' = Append(trace, "stdin_read")
    /\ UNCHANGED <<bib_file, style, stdio_encoding, content, entries, bib_data, cited_keys_list,
                   citation_map, modified_text, references, stdout, stderr, exit_code>>

\* lines 199-201
ReadStdinError ==
    /\ pc = "read_stdin"
    /\ \E e \in stdin_error_texts(stdio_encoding) :
           stderr' = Append(stderr, stdin_error_message(e))
    /\ pc' = "exited"
    /\ exit_code' = <<ExitFailure>>
    /\ trace' = Append(trace, "stdin_read_failed")
    /\ UNCHANGED <<bib_file, style, stdio_encoding, content, entries, bib_data, markdown_text,
                   cited_keys_list, citation_map, modified_text, references, stdout>>

\* lines 204-213
Scan ==
    /\ pc = "scan"
    /\ cited_keys_list' = scan_cited_keys(markdown_text, 1, <<>>)
    /\ pc' = "number"
    /\ trace' = Append(trace, "scanned")
    /\ UNCHANGED <<bib_file, style, stdio_encoding, content, entries, bib_data, markdown_text,
                   citation_map, modified_text, references, stdout, stderr, exit_code>>

\* line 216
Number ==
    /\ pc = "number"
    /\ citation_map' = build_citation_map(cited_keys_list)
    /\ pc' = "rewrite"
    /\ trace' = Append(trace, "numbered")
    /\ UNCHANGED <<bib_file, style, stdio_encoding, content, entries, bib_data, markdown_text,
                   cited_keys_list, modified_text, references, stdout, stderr, exit_code>>

\* lines 219-231
Rewrite ==
    /\ pc = "rewrite"
    /\ modified_text' = citation_sub(markdown_text, 1, citation_map)
    /\ stderr' = stderr \o sub_warnings(markdown_text, 1, citation_map)
    /\ pc' = "references"
    /\ trace' = Append(trace, "rewritten")
    /\ UNCHANGED <<bib_file, style, stdio_encoding, content, entries, bib_data, markdown_text,
                   cited_keys_list, citation_map, references, stdout, exit_code>>

\* lines 234-242; an exception in the formatter lookup or in a formatter call is not
\* caught: the interpreter writes the traceback to stderr and the process ends with
\* status 1
BuildReferences ==
    /\ pc = "references"
    /\ IF \/ formatter_lookup_raises(style)
          \/ build_references_raises(cited_keys_list, bib_data.entries, style)
       THEN /\ pc' = "exited"
            /\ stderr' = stderr \o (IF formatter_lookup_raises(style)
                                    THEN key_error_traceback(style)
                                    ELSE index_error_traceback)
            /\ exit_code' = <<1>>
            /\ trace' = Append(trace, "uncaught_exception")
            /\ UNCHANGED references
       ELSE /\ references' = build_references(cited_keys_list, 1, bib_data.entries, style)
            /\ pc' = "print_text"
            /\ trace' = Append(trace, "references_built")
            /\ UNCHANGED <<stderr, exit_code>>
    /\ UNCHANGED <<bib_file, style, stdio_encoding, content, entries, bib_data,
                   markdown_text, cited_keys_list, citation_map, modified_text, stdout>>

\* line 245: print(modified_text); a UnicodeEncodeError of sys.stdout is not caught
PrintText ==
    /\ pc = "print_text"
    /\ IF print_raises(modified_text, stdio_encoding)
       THEN /\ pc' = "exited"
            /\ stderr' = stderr \o print_traceback(245, SourceLine245, modified_text,
                                                    stdio_encoding)
            /\ exit_code' = <<1>>
            /\ trace' = Append(trace, "uncaught_exception")
            /\ UNCHANGED stdout
       ELSE /\ stdout' = stdout \o modified_text \o <<"\n">>
            /\ pc' = IF has_references(references) THEN "print_heading" ELSE "return"
            /\ trace' = Append(trace, "stdout_write")
            /\ UNCHANGED <<stderr, exit_code>>
    /\ UNCHANGED <<bib_file, style, stdio_encoding, content, entries, bib_data,
                   markdown_text, cited_keys_list, citation_map, modified_text,
                   references>>

\* line 247: print("\n\n## References")
PrintHeading ==
    /\ pc = "print_heading"
    /\ stdout' = stdout \o ReferencesHeading \o <<"\n">>
    /\ pc' = "print_references"
    /\ trace' = Append(trace, "stdout_write")
    /\ UNCHANGED <<bib_file, style, stdio_encoding, content, entries, bib_data, markdown_text,
                   cited_keys_list, citation_map, modified_text, references, stderr,
                   exit_code>>

\* line 248: print("; ".join(references)); a UnicodeEncodeError of sys.stdout is not
\* caught, what was printed before stays written
PrintReferences ==
    /\ pc = "print_references"
    /\ LET text == join(references, SemicolonSpace)
       IN  IF print_raises(text, stdio_encoding)
           THEN /\ pc' = "exited"
                /\ stderr' = stderr \o print_traceback(248, SourceLine248, text,
                                                        stdio_encoding)
                /\ exit_code' = <<1>>
                /\ trace' = Append(trace, "uncaught_exception")
                /\ UNCHANGED stdout
           ELSE /\ stdout' = stdout \o text \o <<"\n">>
                /\ pc' = "return"
                /\ trace' = Append(trace, "stdout_write")
                /\ UNCHANGED <<stderr, exit_code>>
    /\ UNCHANGED <<bib_file, style, stdio_encoding, content, entries, bib_data,
                   markdown_text, cited_keys_list, citation_map, modified_text,
                   references>>

\* main() returns: the process ends with status 0
Return ==
    /\ pc = "return"
    /\ pc' = "exited"
    /\ exit_code' = <<0>>
    /\ trace' = Append(trace, "exit")
    /\ UNCHANGED <<bib_file, style, stdio_encoding, content, entries, bib_data, markdown_text,
                   cited_keys_list, citation_map, modified_text, references, stdout,
                   stderr>>

Next ==
    \/ ParseArgs
    \/ OpenBibNotFound
    \/ OpenBibError
    \/ ReadBib
    \/ ParseBib
    \/ ReturnBib
    \/ CheckBib
    \/ ReadStdin
    \/ ReadStdinError
    \/ Scan
    \/ Number
    \/ Rewrite
    \/ BuildReferences
    \/ PrintText
    \/ PrintHeading
    \/ PrintReferences
    \/ Return

Spec == Init /\ [][Next]_vars

----------------------------------------------------------------------------
(* Vocabulary of the properties *)

Happened(event) == \E i \in 1..Len(trace) : trace[i] = event

\* the comma-separated items of a marker's content, each trimmed
trimmed_items(keys_str) ==
    LET items == split(keys_str, <<",">>)
    IN  [i \in 1..Len(items) |-> rstrip(lstrip(items[i]))]

\* the keys of all markers of a text, in reading order, repetitions included
RECURSIVE key_occurrences(_, _)
key_occurrences(text, pos) ==
    LET start == next_citation(text, pos)
        j == citation_pattern_match(text, start)
    IN  IF start = 0 THEN <<>>
        ELSE trimmed_items(citation_group(text, start, j)) \o key_occurrences(text, j + 1)

\* the distinct keys of a sequence of occurrences, in order of first appearance
first_appearance(occ) ==
    LET firsts == {j \in 1..Len(occ) : \A i \in 1..(j - 1) : occ[i] # occ[j]}
    IN  [n \in 1..Cardinality(firsts) |->
            occ[CHOOSE j \in firsts : Cardinality({i \in firsts : i <= j}) = n]]

\* the position of a key in the first-appearance order, absent keys counted
rank(key, occ) ==
    Cardinality(Range(SubSeq(occ, 1, CHOOSE j \in 1..Len(occ) :
                                          occ[j] = key /\ \A i \in 1..(j - 1) : occ[i] # key)))

\* what the rewritten text `out` shows for each key occurrence of `text`: the
\* markers of text and the bracketed lists of out are walked side by side
RECURSIVE shown_occurrences(_, _, _, _)
shown_occurrences(text, pos, out, opos) ==
    LET start == next_citation(text, pos)
        j == citation_pattern_match(text, start)
        ostart == opos + (start - pos)
        oend == index_from(out, "]", ostart)
        items == IF ostart <= Len(out) /\ out[ostart] = "[" /\ oend # 0
                 THEN split(SubSeq(out, ostart + 1, oend - 1), CommaSpace)
                 ELSE <<>>
        keys == trimmed_items(citation_group(text, start, j))
    IN  IF start = 0 THEN <<>>
        ELSE [i \in 1..Len(keys) |->
                 [key |-> keys[i],
                  shown |-> IF i <= Len(items) THEN items[i] ELSE <<"n", "o", "n", "e">>]]
             \o shown_occurrences(text, j + 1, out, IF oend # 0 THEN oend + 1 ELSE Len(out) + 1)

Shown == shown_occurrences(markdown_text, 1, modified_text, 1)

Occurrences == key_occurrences(markdown_text, 1)

QuestionMark == <<"?">>

\* the section main() prints after the text when there are references
references_section(refs) ==
    ReferencesHeading \o <<"\n">> \o join(refs, SemicolonSpace) \o <<"\n">>

----------------------------------------------------------------------------
(* C1 *)

\* C1: the number map gives the i-th distinct key, in order of first appearance
\* (markers left to right, keys left to right inside a marker), the number i; the
\* numbers given are exactly 1..k for k distinct cited keys.
C1_NumbersFollowFirstAppearance ==
    Happened("numbered") =>
        LET occ == Occurrences
            keys == Range(occ)
        IN  /\ DOMAIN citation_map = keys
            /\ {citation_map[k] : k \in keys} = 1..Cardinality(keys)
            /\ \A k \in keys : citation_map[k] = rank(k, occ)
            /\ \A i \in 1..Len(first_appearance(occ)) : citation_map[first_appearance(occ)[i]] = i

\* three distinct keys are numbered, one of them cited more than once
C1_Witness ==
    /\ Happened("numbered")
    /\ Cardinality(DOMAIN citation_map) >= 3
    /\ Len(Occurrences) > Cardinality(DOMAIN citation_map)

(* C2 *)

\* C2: in the rewritten text every occurrence of a key shows the same value,
\* whatever the marker, the position in it and the whitespace around the key; two
\* different keys never show the same number.
C2_SameKeySameNumber ==
    Happened("rewritten") =>
        \A p \in Range(Shown), q \in Range(Shown) :
            /\ p.key = q.key => p.shown = q.shown
            /\ p.key # q.key => (p.shown # q.shown \/ p.shown = QuestionMark)

\* a key is cited in two markers, once with whitespace around it, next to another key
C2_Witness ==
    /\ Happened("rewritten")
    /\ \E start \in 1..Len(markdown_text) :
           /\ citation_pattern_match(markdown_text, start) # 0
           /\ \E raw \in Range(split(citation_group(markdown_text, start,
                                                    citation_pattern_match(markdown_text, start)),
                                     <<",">>)) :
                  /\ raw # strip(raw)
                  /\ Cardinality({i \in 1..Len(Occurrences) : Occurrences[i] = strip(raw)}) >= 2
    /\ Cardinality(Range(Occurrences)) >= 2

(* C3 *)

\* C3: every occurrence of a cited key that has no entry in the bibliography map is
\* shown as `?` in the rewritten text.
C3_AbsentKeyShownAsQuestionMark ==
    Happened("rewritten") =>
        \A p \in Range(Shown) :
            p.key \notin DOMAIN bib_data.entries => p.shown = QuestionMark

(* C4 *)

\* C4: the reference list holds one reference for each distinct cited key that the
\* bibliography map has and nothing else, in the order of the assigned numbers, each
\* formatted with the key's position in the first-appearance order (absent keys
\* counted, so that they leave a gap).
C4_ReferencesOfPresentKeys ==
    Happened("references_built") =>
        LET occ == Occurrences
            present == SelectSeq(first_appearance(occ), LAMBDA k : k \in DOMAIN bib_data.entries)
        IN  /\ Len(references) = Len(present)
            /\ \A i \in 1..Len(present) :
                   /\ references[i] = formatter(style, bib_data.entries[present[i]], rank(present[i], occ))
                   /\ starts_at(references[i], 1,
                                <<"*","*","[">> \o str(rank(present[i], occ)) \o <<"]","*","*"," ">>)
            /\ \A i \in 1..Len(present), j \in 1..Len(present) :
                   i < j => rank(present[i], occ) < rank(present[j], occ)

\* an absent key is cited before a present one, and a defined key is never cited
C4_Witness ==
    /\ Happened("references_built")
    /\ \E i \in 1..Len(cited_keys_list), j \in 1..Len(cited_keys_list) :
           /\ i < j
           /\ cited_keys_list[i] \notin DOMAIN bib_data.entries
           /\ cited_keys_list[j] \in DOMAIN bib_data.entries
    /\ \E k \in DOMAIN bib_data.entries : k \notin Range(cited_keys_list)
    /\ references # <<>>

(* C5 *)

\* the warnings of the rewrite step among the lines of stderr
key_warnings_written == SelectSeq(stderr, LAMBDA line : starts_at(line, 1, WarnKeyPrefix))

\* C5: the rewrite step writes one warning naming the key for each occurrence of a
\* key that the bibliography map lacks, repeated citations included.
C5_OneWarningPerAbsentOccurrence ==
    Happened("rewritten") =>
        key_warnings_written =
            LET absent == SelectSeq(Occurrences, LAMBDA k : k \notin DOMAIN bib_data.entries)
            IN  [i \in 1..Len(absent) |-> key_warning(absent[i])]

(* C6 *)

\* the run has ended with status 0 after writing the rewritten document
CompletedWithOutput ==
    /\ pc = "exited"
    /\ exit_code = <<0>>
    /\ Happened("rewritten") /\ Happened("references_built")
    /\ starts_at(stdout, 1, modified_text \o <<"\n">>)

\* the steps of main() after the document is read, in program order
StepsAfterStdin ==
    <<"scan", "number", "rewrite", "references", "print_text", "print_heading",
      "print_references", "return", "exited">>

\* C6: once the bibliography and the document are read, the run never fails: no
\* step raises, the run is at one of the steps that lead to the end, and the only
\* way it ends is with status 0 after writing the rewritten document; warnings do
\* not stop it.
C6_ResolutionNeverFails ==
    Happened("stdin_read") =>
        /\ ~Happened("uncaught_exception")
        /\ pc \in Range(StepsAfterStdin)
        /\ exit_code \in {<<>>, <<0>>}
        /\ pc = "exited" => CompletedWithOutput

(* C7 *)

\* C7: the final output, that of a run that has completed, is the rewritten text,
\* followed by the reference section exactly when a cited key is in the bibliography
\* map: two blank lines, `## References`, a newline and the references joined by
\* `; ` on one line.
C7_SectionIffReferences ==
    (pc = "exited" /\ exit_code = <<0>>) =>
        LET some_present == \E k \in Range(Occurrences) : k \in DOMAIN bib_data.entries
        IN  /\ stdout = modified_text \o <<"\n">>
                        \o (IF some_present THEN references_section(references) ELSE <<>>)
            /\ some_present <=> references # <<>>
            /\ \A i \in 1..Len(references) : "\n" \notin Range(references[i])

\* a run ended with a section of two references
C7_Witness ==
    /\ pc = "exited"
    /\ exit_code = <<0>>
    /\ Len(references) >= 2
    /\ find_from(stdout, ReferencesHeading, 1) # 0

(* C8 *)

SmithKey == <<"s","m","i","t","h","2","0","2","0">>

SmithBody == <<"T","e","x","t"," ","[","1","]",".">>

\* the reference of the example; "U+2013" stands for the en dash
SmithReference ==
    <<"*","*","[","1","]","*","*"," ","S","m","i","t","h",","," ","J",".",","," ","D",
      "o","e",","," ","J","."," ","(","2","0","2","0",")","."," ","A"," ","S","t","u",
      "d","y","."," ","*","J","o","u","r","n","a","l"," ","o","f"," ","X","*","."," ",
      "5","(","2",")",","," ","p","p","."," ","1","0","U+2013","2","0">>

\* C8: with the bibliography of the smith2020 example and the document
\* `Text \cite{smith2020}.`, the body is `Text [1].` and the reference list is the one
\* string of the example, built from all seven fields.
C8_SmithExample ==
    /\ (pc = "return_bib" /\ content = SmithBib) =>
           /\ DOMAIN entries = {SmithKey}
           /\ DOMAIN entries[SmithKey] =
                  {F_author, F_year, F_title, F_journal, F_volume, F_number, F_pages}
    /\ (Happened("references_built") /\ markdown_text = SmithDoc
            /\ DOMAIN bib_data.entries = {SmithKey}) =>
           /\ modified_text = SmithBody
           /\ references = <<SmithReference>>

(* C9 *)

\* C9: when the bibliography cannot be read, the run ends with a non-zero status
\* without ever reading standard input, and the error message names the path.
C9_UnreadableBibAbortsBeforeStdin ==
    Happened("bib_read_failed") =>
        /\ ~Happened("stdin_read") /\ ~Happened("stdin_read_failed")
        /\ markdown_text = <<>>
        /\ pc \in {"check_bib", "exited"}
        /\ pc = "exited" => (exit_code # <<>> /\ exit_code # <<0>>)
        /\ Len(stderr) = 1
        /\ find_from(stderr[1], Quote \o bib_file \o Quote, 1) # 0

\* the run has ended after a failed read of the bibliography
C9_Witness ==
    /\ pc = "exited"
    /\ Happened("bib_read_failed")
    /\ exit_code = <<1>>

(* C10 *)

\* C10: a run that meets a fatal condition (bibliography unreadable, standard input
\* unreadable) ends with a non-zero status and has written nothing to stdout; a run
\* that has written to stdout ends with status 0, and its output is then the whole
\* rewritten document.
C10_OutputAllOrNothing ==
    /\ (exit_code # <<>> /\ exit_code # <<0>>) => stdout = <<>>
    /\ (Happened("bib_read_failed") \/ Happened("stdin_read_failed")) =>
           /\ stdout = <<>>
           /\ pc = "exited" => (exit_code # <<>> /\ exit_code # <<0>>)
    /\ stdout # <<>> =>
           /\ Happened("references_built")
           /\ exit_code \in {<<>>, <<0>>}
    /\ (pc = "exited" /\ stdout # <<>>) =>
           /\ exit_code = <<0>>
           /\ stdout = modified_text \o <<"\n">>
                       \o (IF references # <<>> THEN references_section(references) ELSE <<>>)
           /\ modified_text = citation_sub(markdown_text, 1, citation_map)

(* C11 *)

\* the events of a run that touch the bibliography source or standard input
InputEvents ==
    {"bib_read", "bib_read_failed", "bib_parsed", "bib_returned", "stdin_read",
     "stdin_read_failed"}

\* C11: when the style name is not a registered style, the run ends as a usage error
\* (status 2, argparse's usage line and its message naming the style) before the
\* bibliography is opened or parsed and before the document is read: the usage error
\* is the only event of the run; and every run that gets as far as the formatter
\* lookup has a registered style.
C11_UnregisteredStyleIsUsageError ==
    /\ style \notin STYLE_FORMATTERS =>
           /\ pc \in {"parse_args", "exited"}
           /\ \A e \in InputEvents : ~Happened(e)
           /\ content = <<>> /\ bib_data = None /\ markdown_text = <<>> /\ stdout = <<>>
           /\ pc = "exited" =>
                  /\ trace = <<"usage_error">>
                  /\ exit_code = <<2>>
                  /\ stderr = <<UsageLine, usage_message(style)>>
                  /\ find_from(stderr[2], repr(style), 1) # 0
    /\ Happened("usage_error") => style \notin STYLE_FORMATTERS
    /\ (pc \notin {"parse_args", "exited"} \/ Happened("references_built")
            \/ Happened("uncaught_exception")) =>
           /\ style \in STYLE_FORMATTERS
           /\ ~formatter_lookup_raises(style)

\* the run with the style `apa` has ended as a usage error
C11_Witness ==
    /\ pc = "exited"
    /\ style = Apa
    /\ trace = <<"usage_error">>
    /\ exit_code = <<2>>

(* C12 *)

\* a citation marker: `\cite{`, one or more characters other than `}`, then `}`
has_marker(text) ==
    \E i \in 1..Len(text) : \E j \in (i + 7)..Len(text) :
        /\ SubSeq(text, i, i + 5) = <<"\\", "c", "i", "t", "e", "{">>
        /\ text[j] = "}"
        /\ \A k \in (i + 6)..(j - 1) : text[k] # "}"

\* the text a run of the engine would print as its body for the input text
body_of_run_on(text) ==
    citation_sub(text, 1, build_citation_map(scan_cited_keys(text, 1, <<>>)))

\* C12: for a document without citation marker, whatever the bibliography map holds,
\* no key is cited, the body is the input text unchanged, there is no reference and
\* the output is the body and its line end, without reference section; a further
\* run on that output leaves its text unchanged again.
C12_NoMarkerNoChange ==
    ~has_marker(markdown_text) =>
        /\ cited_keys_list = <<>> /\ citation_map = EmptyDict /\ references = <<>>
        /\ Happened("rewritten") => modified_text = markdown_text
        /\ ~Happened("uncaught_exception")
        /\ stdout \in {<<>>, markdown_text \o <<"\n">>}
        /\ (pc = "exited" /\ Happened("stdin_read")) =>
               /\ exit_code = <<0>>
               /\ stdout = markdown_text \o <<"\n">>
               /\ ~has_marker(stdout)
               /\ body_of_run_on(stdout) = stdout

\* a run over a text with an unclosed `\cite{` and a non-empty bibliography map has ended
C12_Witness ==
    /\ pc = "exited"
    /\ markdown_text = Seg_text \o CitePrefix
    /\ DOMAIN bib_data.entries # {}
    /\ stdout = markdown_text \o <<"\n">>

(* C13 *)

\* the number of comma-separated pieces of a marker's content
comma_separated_count(keys_str) == Cardinality({i \in 1..Len(keys_str) : keys_str[i] = ","}) + 1

\* the markers of `text` and what stands in their place in `out`, walked side by side:
\* for each marker its content, the text that replaces it (from the character at the
\* marker's place up to the next `]`) and whether the text before it was copied
RECURSIVE replaced_markers(_, _, _, _)
replaced_markers(text, pos, out, opos) ==
    LET start == next_citation(text, pos)
        j == citation_pattern_match(text, start)
        ostart == opos + (start - pos)
        oend == index_from(out, "]", ostart)
    IN  IF start = 0 THEN <<>>
        ELSE <<[content |-> citation_group(text, start, j),
                replacement |-> IF oend # 0 THEN SubSeq(out, ostart, oend) ELSE <<>>,
                copied_before |-> SubSeq(out, opos, ostart - 1) = SubSeq(text, pos, start - 1)]>>
             \o replaced_markers(text, j + 1, out, IF oend # 0 THEN oend + 1 ELSE Len(out) + 1)

\* the items of a bracketed list `[i1, i2, ...]`
list_items(replacement) == split(SubSeq(replacement, 2, Len(replacement) - 1), CommaSpace)

\* C13: in the rewritten text each marker is replaced as a whole by one bracketed
\* list: `[`, items separated by `, `, `]`; the list has as many items as the marker
\* has comma-separated keys, and its i-th item is the number of the marker's i-th key
\* (a key repeated in the marker is repeated in the list).
C13_OneListPerMarker ==
    Happened("rewritten") =>
        LET markers == replaced_markers(markdown_text, 1, modified_text, 1)
        IN  \A m \in 1..Len(markers) :
                   LET r == markers[m].replacement
                       keys == trimmed_items(markers[m].content)
                       items == list_items(r)
                   IN  /\ markers[m].copied_before
                       /\ Len(r) >= 3 /\ r[1] = "[" /\ r[Len(r)] = "]"
                       /\ Len(items) = comma_separated_count(markers[m].content)
                       /\ Len(items) = Len(keys)
                       /\ \A i \in 1..Len(items) :
                              /\ items[i] # <<>>
                              /\ Range(items[i]) \subseteq Range(DigitChars)
                              /\ keys[i] \in DOMAIN citation_map
                              /\ items[i] = str(citation_map[keys[i]])

\* a marker with one key and a marker with the same key twice have been replaced
C13_Witness ==
    /\ Happened("rewritten")
    /\ markdown_text = Seg_b_b \o Seg_a
    /\ modified_text = <<"[", "1", ",", " ", "1", "]", "[", "2", "]">>

(* C14 *)

\* the entries of a bibliography text, in order: for each header its key and the
\* text from the end of the header up to the brace that closes the entry
RECURSIVE entry_bodies(_, _)
entry_bodies(s, pos) ==
    LET start == First(pos, Len(s), LAMBDA i : bib_entry_pattern_match(s, i).matched)
        m == bib_entry_pattern_match(s, start)
    IN  IF start = 0 THEN <<>>
        ELSE <<[cite_key |-> strip(m.group2), body |-> scan_entry_content(s, m.end + 1, 1),
                header_end |-> m.end]>>
             \o entry_bodies(s, m.end + 1)

\* the lower-cased names of the lines of a body that have the shape of a field line
field_line_names(body) ==
    LET lines == split(body, <<"\n">>)
    IN  {lower(field_match(strip(lines[i])).group1) :
            i \in {n \in 1..Len(lines) : field_match(strip(lines[n])).matched}}

\* the entries of the parsed text; the last entry of each key is the one whose
\* fields the map is expected to hold
ParsedBodies == entry_bodies(content, 1)

is_last_of_key(bodies, i) == \A j \in (i + 1)..Len(bodies) : bodies[j].cite_key # bodies[i].cite_key

\* C14: for every entry, each non-empty line of its body of the shape
\* `<name> = {<value>}`, with or without trailing comma, the last one before the
\* closing brace included, gives a field <name> of that entry in the parser's result;
\* an entry with exactly one field line is in the result with that one field.
C14_EveryFieldLineGivesAField ==
    pc = "return_bib" =>
        \A i \in 1..Len(ParsedBodies) :
            (is_last_of_key(ParsedBodies, i) /\ field_line_names(ParsedBodies[i].body) # {}) =>
                /\ ParsedBodies[i].cite_key \in DOMAIN entries
                /\ field_line_names(ParsedBodies[i].body)
                       \subseteq DOMAIN entries[ParsedBodies[i].cite_key]

(* C15 *)

Key_b == <<"b">>

\* the entries of the parsed text with the fields extracted from each
ParsedEntries == bib_entries(content, 1)

\* the warnings expected for a sequence of parsed entries: one per entry without field
RECURSIVE zero_field_warnings(_)
zero_field_warnings(found) ==
    IF found = <<>> THEN <<>>
    ELSE (IF DOMAIN Head(found).fields = {}
          THEN <<WarnParsePrefix \o Head(found).cite_key \o <<"'">> >>
          ELSE <<>>)
         \o zero_field_warnings(Tail(found))

\* the number a reference line starts with
reference_label(n) == <<"*", "*", "[">> \o str(n) \o <<"]", "*", "*">>

\* C15: each entry for which zero fields are extracted causes the warning `Could not
\* parse fields for entry '<key>'` and is not stored: a key all of whose entries have
\* zero fields is not in the result map, and every key of the map has at least one
\* field; a cited key that the map lacks, as such a key does, gets no reference line.
C15_ZeroFieldEntriesAreAbsent ==
    /\ pc = "return_bib" =>
           /\ stderr = zero_field_warnings(ParsedEntries)
           /\ \A k \in DOMAIN entries : DOMAIN entries[k] # {}
           /\ \A i \in 1..Len(ParsedEntries) :
                  (\A j \in 1..Len(ParsedEntries) :
                       ParsedEntries[j].cite_key = ParsedEntries[i].cite_key
                           => DOMAIN ParsedEntries[j].fields = {})
                      => ParsedEntries[i].cite_key \notin DOMAIN entries
    /\ \A k \in DOMAIN bib_data.entries : DOMAIN bib_data.entries[k] # {}
    /\ Happened("references_built") =>
           /\ Len(references) =
                  Cardinality({i \in 1..Len(cited_keys_list) :
                                  cited_keys_list[i] \in DOMAIN bib_data.entries})
           /\ \A i \in 1..Len(cited_keys_list) :
                  cited_keys_list[i] \notin DOMAIN bib_data.entries =>
                      \A r \in 1..Len(references) :
                          SubSeq(references[r], 1, Len(reference_label(i))) # reference_label(i)

\* key b, whose only entry gave no field and a warning, is cited together with a key
\* that has an entry: the references are built and hold one line
C15_Witness ==
    /\ Happened("references_built")
    /\ stderr = <<WarnParsePrefix \o Key_b \o <<"'">> >>
    /\ Key_b \in Range(cited_keys_list)
    /\ Key_b \notin DOMAIN bib_data.entries
    /\ Len(cited_keys_list) = 2
    /\ Len(references) = 1

(* C16 *)

\* the positions of the entries of a key, and of those from which a field was extracted
entries_of_key(found, key) == {i \in 1..Len(found) : found[i].cite_key = key}

entries_with_fields(found, key) == {i \in entries_of_key(found, key) : DOMAIN found[i].fields # {}}

max_of(positions) == CHOOSE i \in positions : \A j \in positions : j <= i

\* C16 as stated: of several entries with the same key, the result map holds the
\* outcome of the one that appears last; what the key resolves to is never the fields
\* of an earlier entry.
C16_LastEntryWins ==
    pc = "return_bib" =>
        \A i \in 1..Len(ParsedEntries) :
            LET key == ParsedEntries[i].cite_key
                last == ParsedEntries[max_of(entries_of_key(ParsedEntries, key))]
            IN  /\ DOMAIN last.fields # {} => key \in DOMAIN entries
                /\ key \in DOMAIN entries => entries[key] = last.fields

\* C16, amended: of several entries with the same key, the result map holds the
\* fields of the last one from which at least one field was extracted; an entry from
\* which no field was extracted neither replaces nor removes an earlier entry of its
\* key; the duplicate raises no error and no message other than the warnings for the
\* entries without field.
C16_LastEntryWithFieldsWins ==
    pc = "return_bib" =>
        /\ exit_code = <<>>
        /\ stderr = zero_field_warnings(ParsedEntries)
        /\ \A i \in 1..Len(ParsedEntries) :
               LET key == ParsedEntries[i].cite_key
                   with == entries_with_fields(ParsedEntries, key)
               IN  IF with = {} THEN key \notin DOMAIN entries
                   ELSE /\ key \in DOMAIN entries
                        /\ entries[key] = ParsedEntries[max_of(with)].fields

\* two entries of one key were parsed: the first has fields, the last has none, and
\* the key is in the result map
C16_Witness ==
    /\ pc = "return_bib"
    /\ Len(ParsedEntries) = 2
    /\ ParsedEntries[1].cite_key = ParsedEntries[2].cite_key
    /\ DOMAIN ParsedEntries[1].fields # {}
    /\ DOMAIN ParsedEntries[2].fields = {}
    /\ content = Entry_b \o Entry_b_no_fields
    /\ DOMAIN entries = {Key_b}

(* C17 *)

\* the lines of an entry body that the parser reads as field lines, trimmed
read_field_lines(body) ==
    LET lines == split(rsplit_brace(body), <<"\n">>)
    IN  {strip(lines[n]) : n \in {m \in 1..Len(lines) : field_match(strip(lines[m])).matched}}

\* the text of a field line between its first `{` and its last `}`
between_braces(line) ==
    LET open == CHOOSE i \in 1..Len(line) : line[i] = "{" /\ \A j \in 1..(i - 1) : line[j] # "{"
        close == CHOOSE i \in 1..Len(line) : line[i] = "}" /\ \A j \in (i + 1)..Len(line) : line[j] # "}"
    IN  SubSeq(line, open + 1, close - 1)

\* a text without its leading and trailing whitespace
trimmed(text) == rstrip(lstrip(text))

\* a text without its braces
without_braces(text) == SelectSeq(text, LAMBDA c : c \notin {"{", "}"})

\* the name of a field line, lower-cased
field_line_name(line) == lower(trimmed(SubSeq(line, 1, (CHOOSE i \in 1..Len(line) : line[i] = "=" /\ \A j \in 1..(i - 1) : line[j] # "=") - 1)))

Title_A_B_C == <<"A", " ", "B", " ", "C">>

Title_A_braced_B_C == <<"A", " ", "{", "B", "}", " ", "C">>

\* C17 as stated: the value of a field is the text between the surrounding braces of
\* its line, trimmed and otherwise unchanged: nested braces are kept.
C17_OneLayerOfBracesRemoved ==
    pc = "return_bib" =>
        \A i \in 1..Len(ParsedBodies) :
            LET key == ParsedBodies[i].cite_key
            IN  (i = max_of(entries_of_key(ParsedBodies, key)) /\ key \in DOMAIN entries) =>
                    \A line \in read_field_lines(ParsedBodies[i].body) :
                        /\ field_line_name(line) \in DOMAIN entries[key]
                        /\ entries[key][field_line_name(line)] = trimmed(between_braces(line))

\* C17, amended: the value of a field is the text between the first `{` and the last
\* `}` of its line as the parser reads it, trimmed and with every brace inside it
\* removed: no stored value holds a brace, and the line `title = {A {B} C},` yields
\* `A B C`.
C17_AllBracesRemoved ==
    pc = "return_bib" =>
        /\ \A key \in DOMAIN entries : \A f \in DOMAIN entries[key] :
               /\ "{" \notin Range(entries[key][f]) /\ "}" \notin Range(entries[key][f])
               /\ entries[key][f] = trimmed(entries[key][f])
        /\ \A i \in 1..Len(ParsedBodies) :
               LET key == ParsedBodies[i].cite_key
               IN  (i = max_of(entries_of_key(ParsedBodies, key)) /\ key \in DOMAIN entries) =>
                       \A line \in read_field_lines(ParsedBodies[i].body) :
                           /\ field_line_name(line) \in DOMAIN entries[key]
                           /\ entries[key][field_line_name(line)] =
                                  without_braces(trimmed(between_braces(line)))
                           /\ trimmed(between_braces(line)) = Title_A_braced_B_C =>
                                  entries[key][field_line_name(line)] = Title_A_B_C

\* the entry with the line `title = {A {B} C},` was parsed
C17_Witness ==
    /\ pc = "return_bib"
    /\ content = Entry_b
    /\ Key_b \in DOMAIN entries
    /\ F_title \in DOMAIN entries[Key_b]
    /\ entries[Key_b][F_title] = Title_A_B_C

(* C18 *)

\* the brace depth after the character at i, for a scan that starts at `from` with depth 1
depth_after(s, from, i) ==
    1 + Cardinality({k \in from..i : s[k] = "{"}) - Cardinality({k \in from..i : s[k] = "}"})

\* the text from `from` up to, and not including, the first `}` at which the depth
\* reaches 0 (up to the end of the text when there is no such brace)
body_up_to_closing_brace(s, from) ==
    LET closing == {i \in from..Len(s) : s[i] = "}" /\ depth_after(s, from, i) = 0}
    IN  IF closing = {} THEN SubSeq(s, from, Len(s))
        ELSE SubSeq(s, from, (CHOOSE i \in closing : \A j \in closing : i <= j) - 1)

\* C18: the text the fields of an entry are parsed from is the text from the end of
\* its header up to, and not including, the first `}` at which the brace depth
\* (1 at the start, +1 on `{`, -1 on `}`) reaches 0; the entry's fields are the names
\* of field lines of that text, none comes from text after the closing brace.
C18_BodyEndsAtClosingBrace ==
    pc = "return_bib" =>
        \A i \in 1..Len(ParsedBodies) :
            LET body == body_up_to_closing_brace(content, ParsedBodies[i].header_end + 1)
            IN  /\ entry_content_str(content, ParsedBodies[i].header_end) = body
                /\ DOMAIN ParsedEntries[i].fields \subseteq field_line_names(body)

(* C19 *)

\* the pieces of a reference that follow the title piece: journal, issue, pages, each
\* present only when the entry has the field(s) with a non-empty value
pieces_after_title(e) ==
    LET has(f) == f \in DOMAIN e /\ e[f] # <<>>
        issue == (IF has(F_volume) THEN e[F_volume] ELSE <<>>)
                 \o (IF has(F_number) THEN <<"(">> \o e[F_number] \o <<")">> ELSE <<>>)
    IN  (IF has(F_journal) THEN <<" ", "*">> \o e[F_journal] \o <<"*", ".">> ELSE <<>>)
        \o (IF issue # <<>> THEN <<" ">> \o issue \o <<",">> ELSE <<>>)
        \o (IF has(F_pages)
            THEN <<" ", "p", "p", ".", " ">> \o replace(e[F_pages], <<"-", "-">>, DashReplacement)
            ELSE <<>>)

year_piece(e) == <<"(">> \o (IF F_year \in DOMAIN e THEN e[F_year] ELSE <<"N", "/", "A">>) \o <<")", ".">>

\* the end of a reference when a missing title gives no piece
tail_without_placeholder(e) ==
    year_piece(e) \o (IF F_title \in DOMAIN e THEN <<" ">> \o e[F_title] \o <<".">> ELSE <<>>)
    \o pieces_after_title(e)

\* the end of a reference when a missing title gives the piece `N/A.`
tail_with_title_placeholder(e) ==
    year_piece(e) \o <<" ">> \o (IF F_title \in DOMAIN e THEN e[F_title] ELSE <<"N", "/", "A">>)
    \o <<".">> \o pieces_after_title(e)

ends_with(text, tail) ==
    Len(tail) <= Len(text) /\ SubSeq(text, Len(text) - Len(tail) + 1, Len(text)) = tail

\* the cited keys that have an entry, in order: references[r] is the line of CitedEntries[r]
CitedEntries == SelectSeq(cited_keys_list, LAMBDA k : k \in DOMAIN bib_data.entries)

\* C19 as stated: every reference ends with `(<year>).` (`N/A` for a missing year),
\* the title piece only if the entry has a title, and the journal, issue and pages
\* pieces only for the fields the entry has: no `N/A` for a missing title.
C19_NoPlaceholderForTitle ==
    Happened("references_built") =>
        /\ Len(references) = Len(CitedEntries)
        /\ \A r \in 1..Len(references) :
               ends_with(references[r], <<" ">> \o tail_without_placeholder(bib_data.entries[CitedEntries[r]]))

\* C19, amended: the literal `N/A` stands in for a missing year and for a missing
\* title as well: every reference ends with `(<year>).`, the title piece, which is
\* `N/A.` for an entry without title, and the journal, issue and pages pieces only
\* for the fields the entry has, a missing one leaving no placeholder.
C19_PlaceholderForYearAndTitle ==
    Happened("references_built") =>
        /\ Len(references) = Len(CitedEntries)
        /\ \A r \in 1..Len(references) :
               ends_with(references[r], <<" ">> \o tail_with_title_placeholder(bib_data.entries[CitedEntries[r]]))

\* a cited entry that has a year and no title, journal, volume, number or pages
C19_Witness ==
    /\ Happened("references_built")
    /\ Len(references) = 1
    /\ DOMAIN bib_data.entries[CitedEntries[1]] = {F_year}
    /\ ends_with(references[1], <<" ", "(", "2", "0", "0", "1", ")", ".", " ", "N", "/", "A", ".">>)

(* C20 *)

\* how a reference begins when its author piece is exactly `N/A`
beginning_without_author(e, n) ==
    reference_label(n) \o <<" ", "N", "/", "A", " ">> \o year_piece(e)

\* C20: the reference of an entry whose author field is missing or empty has the
\* author piece `N/A` and nothing more: it begins `**[n]** N/A (<year>).`.
C20_MissingAuthorGivesNA ==
    Happened("references_built") =>
        \A r \in 1..Len(references) :
            LET key == CitedEntries[r]
                e == bib_data.entries[key]
                beginning == beginning_without_author(e, citation_map[key])
            IN  (F_author \notin DOMAIN e \/ e[F_author] = <<>>) =>
                    SubSeq(references[r], 1, Len(beginning)) = beginning

(* C21 *)

\* the items of an author field: the texts between the separators ` and `
author_items(field) == split(field, <<" ", "a", "n", "d", " ">>)

\* the whitespace-separated tokens of an item
tokens_of(item) == split_ws(item)

\* `<Surname>, <Initials>`: the last token, comma, space, then the first character
\* and a dot of each preceding token, separated by spaces
RECURSIVE initials_text(_)
initials_text(tokens) ==
    IF tokens = <<>> THEN <<>>
    ELSE <<tokens[1][1], ".">> \o (IF Len(tokens) > 1 THEN <<" ">> ELSE <<>>)
         \o initials_text(Tail(tokens))

rendered_author(tokens) ==
    tokens[Len(tokens)] \o <<",", " ">> \o initials_text(SubSeq(tokens, 1, Len(tokens) - 1))

\* the rendered authors of the items that hold a token, joined by `, `
RECURSIVE rendered_authors(_)
rendered_authors(items) ==
    IF items = <<>> THEN <<>>
    ELSE LET rest == rendered_authors(Tail(items))
         IN  IF tokens_of(Head(items)) = <<>> THEN rest
             ELSE rendered_author(tokens_of(Head(items)))
                  \o (IF rest # <<>> THEN <<",", " ">> ELSE <<>>) \o rest

items_with_token(items) == SelectSeq(items, LAMBDA item : tokens_of(item) # <<>>)

\* the whole reference of an entry whose author piece is `authors`
reference_with_authors(e, n, authors) ==
    reference_label(n) \o (IF authors # <<>> THEN <<" ">> \o authors ELSE <<>>)
    \o <<" ">> \o tail_with_title_placeholder(e)

has_author(e) == F_author \in DOMAIN e /\ e[F_author] # <<>>

\* C21: for a non-empty author field the author piece is made of the field's
\* authors, the items between the separators ` and ` that hold a name (at least one
\* token): each is rendered `<Surname>, <Initials>`, the surname being its last token
\* and each preceding token giving its first character and a dot, and the rendered
\* authors are joined by `, ` in the order of the field, one per author.
C21_OneRenderedAuthorPerAuthor ==
    Happened("references_built") =>
        \A r \in 1..Len(references) :
            LET e == bib_data.entries[CitedEntries[r]]
            IN  has_author(e) =>
                    references[r] = reference_with_authors(e, citation_map[CitedEntries[r]],
                                        rendered_authors(author_items(e[F_author])))

\* a cited entry whose author field holds two names and an empty item between them
C21_Witness ==
    /\ Happened("references_built")
    /\ Len(references) >= 1
    /\ has_author(bib_data.entries[CitedEntries[1]])
    /\ Len(author_items(bib_data.entries[CitedEntries[1]][F_author])) = 3
    /\ Len(items_with_token(author_items(bib_data.entries[CitedEntries[1]][F_author]))) = 2
    /\ find_from(references[1], <<"L","e","e",","," ","A","."," ","B",".",","," ","E","k",","," ","B",".">>, 1) # 0

(* C22 *)

field_or_empty(e, f) == IF f \in DOMAIN e THEN e[f] ELSE <<>>

\* the issue-info piece with the space before it: `5(2),` for a volume and a number,
\* `5,` for a volume only, `(2),` for a number only, nothing without both
issue_piece(e) ==
    LET volume == field_or_empty(e, F_volume)
        number_field == field_or_empty(e, F_number)
    IN  IF volume # <<>> /\ number_field # <<>>
            THEN <<" ">> \o volume \o <<"(">> \o number_field \o <<")", ",">>
        ELSE IF volume # <<>> THEN <<" ">> \o volume \o <<",">>
        ELSE IF number_field # <<>> THEN <<" ", "(">> \o number_field \o <<")", ",">>
        ELSE <<>>

journal_piece(e) ==
    IF field_or_empty(e, F_journal) # <<>> THEN <<" ", "*">> \o e[F_journal] \o <<"*", ".">> ELSE <<>>

\* what follows the issue-info piece: the pages piece, if any, up to the end
after_issue(reference) ==
    LET p == find_from(reference, <<" ", "p", "p", ".", " ">>, 1)
    IN  IF p = 0 THEN <<>> ELSE SubSeq(reference, p, Len(reference))

Key_c == <<"c">>

\* C22: the issue-info piece stands between the journal piece (or the title piece)
\* and the pages piece exactly when the volume or the number field is non-empty, and
\* is then the volume, `(<number>)` and a comma; the number in `**[n]**` is the
\* citation number of the key, whatever the entry's number field holds.
C22_IssueInfo ==
    Happened("references_built") =>
        \A r \in 1..Len(references) :
            LET e == bib_data.entries[CitedEntries[r]]
                label == reference_label(citation_map[CitedEntries[r]])
                pages == after_issue(references[r])
                before_pages == SubSeq(references[r], 1, Len(references[r]) - Len(pages))
            IN  /\ SubSeq(references[r], 1, Len(label) + 1) = label \o <<" ">>
                /\ ends_with(before_pages, <<".">> \o journal_piece(e) \o issue_piece(e))
                /\ (issue_piece(e) = <<>>) <=>
                       (field_or_empty(e, F_volume) = <<>> /\ field_or_empty(e, F_number) = <<>>)
                /\ (issue_piece(e) = <<>> /\ journal_piece(e) = <<>>) =>
                       ends_with(before_pages,
                                 (IF F_title \in DOMAIN e THEN e[F_title] ELSE <<"N", "/", "A">>) \o <<".">>)

\* the entry of key c, with the number 7 and no volume, is cited first and its
\* reference is numbered 1 and ends `(7),`
C22_Witness ==
    /\ Happened("references_built")
    /\ Len(references) = 1
    /\ CitedEntries[1] = Key_c
    /\ DOMAIN bib_data.entries[Key_c] = {F_number}
    /\ citation_map[Key_c] = 1
    /\ ends_with(references[1], <<"N", "/", "A", ".", " ", "(", "7", ")", ",">>)
    /\ SubSeq(references[1], 1, 5) = <<"*", "*", "[", "1", "]">>

(* C23 *)

\* the en dash, one character
EnDash == <<"U+2013">>

PagesPrefix == <<" ", "p", "p", ".", " ">>

\* C23: a reference has a pages piece exactly when the entry's pages field is
\* non-empty, and the piece, the last of the reference, is `pp. ` and the pages value
\* with every `--` replaced by one en dash and nothing else changed.
C23_PagesWithEnDash ==
    Happened("references_built") =>
        \A r \in 1..Len(references) :
            LET e == bib_data.entries[CitedEntries[r]]
                pages == field_or_empty(e, F_pages)
            IN  IF pages # <<>>
                THEN ends_with(references[r], PagesPrefix \o replace(pages, <<"-", "-">>, EnDash))
                ELSE find_from(references[r], PagesPrefix, 1) = 0

(* C24 *)

\* the number map that the markers of the document call for
expected_number_map == [k \in Range(Occurrences) |-> rank(k, Occurrences)]

\* C24: no substitution happens before the number map is built; from then on the
\* map is the one the markers of the whole document call for and stays so; every
\* key the rewrite step looks up is in the map, so no `?` is shown and no `not
\* found` warning is written.
C24_NumberMapCompleteBeforeRewrite ==
    /\ ~Happened("numbered") =>
           /\ ~Happened("rewritten")
           /\ modified_text = <<>>
           /\ citation_map = EmptyDict
    /\ Happened("numbered") =>
           /\ Happened("scanned")
           /\ citation_map = expected_number_map
    /\ Happened("rewritten") =>
           /\ \A i \in 1..Len(Shown) :
                  /\ Shown[i].key \in DOMAIN citation_map
                  /\ Shown[i].shown = str(citation_map[Shown[i].key])
                  /\ Shown[i].shown # <<"?">>
           /\ sub_warnings(markdown_text, 1, citation_map) = <<>>
           /\ \A i \in 1..Len(stderr) :
                  ~starts_at(stderr[i], 1, WarnKeyPrefix)

\* a document with three distinct keys, none of them in the bibliography, was rewritten
C24_Witness ==
    /\ Happened("rewritten")
    /\ markdown_text = Seg_c_b \o Seg_a
    /\ DOMAIN bib_data.entries = {}
    /\ DOMAIN citation_map = {<<"a">>, <<"b">>, <<"c">>}
    /\ modified_text = <<"[", "1", ",", " ", "2", "]", "[", "3", "]">>

(* C25 *)

\* the position of the first occurrence of an event in the trace, 0 when it did not happen
position(event) ==
    IF Happened(event)
    THEN CHOOSE i \in 1..Len(trace) : trace[i] = event /\ \A j \in 1..(i - 1) : trace[j] # event
    ELSE 0

\* event `first` happened before event `second`, if `second` happened at all
precedes(first, second) ==
    Happened(second) => (Happened(first) /\ position(first) < position(second))

ReadEvents == {"bib_read", "stdin_read"}

ProcessingEvents == {"bib_parsed", "scanned", "numbered", "rewritten"}

\* C25 as stated: both reads come before every processing step: no parsing of the
\* bibliography, and none of its warnings, precedes the read of the document.
C25_BothReadsBeforeProcessing ==
    /\ \A p \in ProcessingEvents : \A r \in ReadEvents : precedes(r, p)
    /\ stderr # <<>> => (Happened("stdin_read") \/ ~Happened("bib_parsed"))

\* C25, amended: each input is read whole before it is processed, the bibliography
\* first: it is read, then parsed with its warnings written, and only then is the
\* document read, which in turn precedes scanning, numbering and rewriting; the
\* parser works on the whole text read and the scan on the whole document.
C25_EachInputReadBeforeItsProcessing ==
    /\ precedes("bib_read", "bib_parsed")
    /\ precedes("bib_parsed", "bib_returned")
    /\ precedes("bib_returned", "stdin_read")
    /\ precedes("bib_returned", "stdin_read_failed")
    /\ precedes("stdin_read", "scanned")
    /\ precedes("scanned", "numbered")
    /\ precedes("numbered", "rewritten")
    /\ precedes("rewritten", "references_built")
    /\ pc = "return_bib" =>
           /\ content \in BibTexts
           /\ stderr = zero_field_warnings(ParsedEntries)
    /\ Happened("stdin_read") => markdown_text \in Docs
    /\ Happened("scanned") => Range(cited_keys_list) = Range(Occurrences)

\* a successful run whose bibliography was parsed, with a warning, before the
\* document was read
C25_Witness ==
    /\ pc = "exited"
    /\ exit_code = <<0>>
    /\ Len(stderr) = 1
    /\ position("bib_parsed") = 3
    /\ position("stdin_read") = 5
    /\ markdown_text # <<>>

(* C26 *)

\* C26: the rewritten body holds no citation marker (`\cite{`, at least one character
\* other than `}`, `}`), whatever markers, nested, adjacent or malformed, the
\* document held: a scan of the body finds no key and a rewrite of the body changes
\* nothing.
C26_NoMarkerInBody ==
    Happened("rewritten") =>
        /\ ~has_marker(modified_text)
        /\ next_citation(modified_text, 1) = 0
        /\ scan_cited_keys(modified_text, 1, <<>>) = <<>>
        /\ body_of_run_on(modified_text) = modified_text

\* the document `\cite{\cite{a}`, a marker that starts inside an unclosed one, was rewritten
C26_Witness ==
    /\ Happened("rewritten")
    /\ markdown_text = CitePrefix \o Seg_a
    /\ has_marker(markdown_text)
    /\ modified_text = <<"[", "1", "]">>

(* C27 *)

\* the key occurrences of the document that are not the empty string
NamedOccurrences == SelectSeq(Occurrences, LAMBDA k : k # <<>>)

\* C27: every key that has a number is a non-empty string, and the numbers are those
\* the non-empty keys get by first appearance among themselves: an empty item of a
\* marker neither gets a number nor shifts the number of a later key.
C27_NoNumberForEmptyKey ==
    Happened("numbered") =>
        /\ <<>> \notin DOMAIN citation_map
        /\ \A k \in Range(NamedOccurrences) :
               /\ k \in DOMAIN citation_map
               /\ citation_map[k] = rank(k, NamedOccurrences)

(* C28 *)

\* whether the brace depth of the scan that starts at `from` with depth 1 returns to 0
depth_returns_to_zero(s, from) ==
    \E i \in from..Len(s) : s[i] = "}" /\ depth_after(s, from, i) = 0

\* the messages of the fatal outcome of the bibliography read
is_fatal_bib_message(line) ==
    \/ starts_at(line, 1, ErrNotFoundPrefix)
    \/ starts_at(line, 1, ErrReadBibPrefix)

\* C28: for every bibliography text that was read, the parser comes to its result,
\* a map of the keys found, also when an entry is never closed: the body scan of
\* such an entry stops at the end of the text; the result is never the unreadable
\* outcome: no fatal message is written, the run goes on to read the document and
\* does not end with a failure status because of the bibliography.
C28_ParserReturnsMapForAnyText ==
    Happened("bib_read") =>
        /\ ~Happened("bib_read_failed")
        /\ \A i \in 1..Len(stderr) : ~is_fatal_bib_message(stderr[i])
        /\ pc = "return_bib" =>
               /\ DOMAIN entries \subseteq {ParsedBodies[i].cite_key : i \in 1..Len(ParsedBodies)}
               /\ \A i \in 1..Len(ParsedBodies) :
                      ~depth_returns_to_zero(content, ParsedBodies[i].header_end + 1) =>
                          ParsedBodies[i].body
                              = SubSeq(content, ParsedBodies[i].header_end + 1, Len(content))
        /\ Happened("bib_parsed") <=> pc # "parse_bib"
        /\ pc \notin {"parse_bib", "return_bib"} =>
               /\ Happened("bib_returned")
               /\ ~bib_unreadable(bib_data)
        /\ pc = "exited" => (Happened("stdin_read") \/ Happened("stdin_read_failed"))
        /\ (pc = "exited" /\ Happened("stdin_read")) => exit_code \in {<<0>>, <<1>>}

\* the entry that is never closed was parsed to a map with its key, and the run
\* went on to the end
C28_Witness ==
    /\ pc = "exited"
    /\ exit_code = <<0>>
    /\ Happened("bib_parsed")
    /\ DOMAIN bib_data.entries = {Key_b}
    /\ DOMAIN bib_data.entries[Key_b] = {F_title}
    /\ bib_data.entries[Key_b][F_title] = <<"X", " ", "Y">>
    /\ stderr = <<>>

(* C29 *)

\* the text of a document outside its markers, in order
RECURSIVE text_outside_markers(_, _)
text_outside_markers(text, pos) ==
    LET start == next_citation(text, pos)
        j == citation_pattern_match(text, start)
    IN  IF start = 0 THEN SubSeq(text, pos, Len(text))
        ELSE SubSeq(text, pos, start - 1) \o text_outside_markers(text, j + 1)

\* the number of markers of a document
RECURSIVE marker_count(_, _)
marker_count(text, pos) ==
    LET start == next_citation(text, pos)
    IN  IF start = 0 THEN 0
        ELSE 1 + marker_count(text, citation_pattern_match(text, start) + 1)

\* the characters a bracketed replacement is made of
ReplacementChars == Range(DigitChars) \cup {"[", "]", ",", " ", "?"}

\* `out` is `text` with each marker replaced by one bracketed list and nothing else
\* changed: the markers and the lists are walked side by side from pos and opos
RECURSIVE only_markers_replaced(_, _, _, _)
only_markers_replaced(text, pos, out, opos) ==
    LET start == next_citation(text, pos)
        j == citation_pattern_match(text, start)
        ostart == opos + (start - pos)
        oend == index_from(out, "]", ostart)
    IN  IF start = 0 THEN SubSeq(out, opos, Len(out)) = SubSeq(text, pos, Len(text))
        ELSE /\ SubSeq(out, opos, ostart - 1) = SubSeq(text, pos, start - 1)
             /\ ostart <= Len(out) /\ out[ostart] = "[" /\ oend # 0
             /\ Range(SubSeq(out, ostart, oend)) \subseteq ReplacementChars
             /\ only_markers_replaced(text, j + 1, out, oend + 1)

count_of(text, c) == Cardinality({i \in 1..Len(text) : text[i] = c})

\* C29: the rewritten body is the document with each marker replaced by one bracketed
\* list: every character outside a marker is kept, in the same order, and there are
\* as many bracketed lists put in as the document has markers.
C29_OnlyMarkersChange ==
    Happened("rewritten") =>
        LET outside == text_outside_markers(markdown_text, 1)
            markers == marker_count(markdown_text, 1)
        IN  /\ only_markers_replaced(markdown_text, 1, modified_text, 1)
            /\ count_of(modified_text, "[") = count_of(outside, "[") + markers
            /\ count_of(modified_text, "]") = count_of(outside, "]") + markers
            /\ \A c \in Range(outside) \ ReplacementChars :
                   count_of(modified_text, c) = count_of(outside, c)
            /\ markers = Len(replaced_markers(markdown_text, 1, modified_text, 1))

\* a document with text before a marker of two keys was rewritten: the text is kept
\* and the marker is replaced by one list
C29_Witness ==
    /\ Happened("rewritten")
    /\ markdown_text = Seg_text \o Seg_b_a
    /\ modified_text = <<" ", "x", " ", "[", "1", ",", " ", "2", "]">>
    /\ marker_count(markdown_text, 1) = 1

====
